---- MODULE Spec2Model ----
(***************************************************************************)
(* The document persistence engine of itsy: versioned saves under an       *)
(* editorial mutex (lease), revision snapshots, field preparation and      *)
(* validation, and cascade / restrict delete resolution.                   *)
(*                                                                         *)
(* The MongoDB collections are the shared state; every pymongo call        *)
(* (find_and_modify, update, insert, remove) is one atomic action.  Each   *)
(* editor is a process holding an in-memory Document instance.             *)
(***************************************************************************)
EXTENDS Integers, Sequences, FiniteSets, TLC

\* ------------------------------------------------------------------ bounds
MaxTicks == 1
MaxId == 3
MaxSeqInserts == 1
MaxVersion == 2
MaxSeqVersion == 2
MaxUserValue == 2
MaxTargets == 2
MaxSyncs == 2
MaxSyncVersion == 3
MaxRevVersion == 3
MaxPathLen == 3
MaxKeyLen == 3
MaxMirrored == 3
MaxDepth == 4
BatchSize == 2

\* ------------------------------------------------------- program constants
\* Python's None.
Null == -1
\* timedelta(seconds = 30): the lease window set by _lock.
LeaseSeconds == 30
\* timedelta(hours = 1) in seconds: the "unlocked" sentinel offset.
HourSeconds == 3600
\* @celery_task(max_retries = 3) of cache_resync.
MaxRetries == 3
\* on_delete policies of a cached reference field.
CASCADE == 1
RESTRICT == 2

Editors == {"e1", "e2"}
DocIds == 1..MaxId
UserFields == {"a", "b"}
UserValues == 0..MaxUserValue


VARIABLES
  store,       \* the documents collection: DocIds -> stored record
  revisions,   \* the "<collection>.revisions" collection: set of records
  counters,    \* "next" of the SerialField counter document (0: not created)
  now,         \* datetime.utcnow(), in seconds
  ticks,       \* number of clock advances so far
  fields,      \* the schema: field name -> descriptor (_meta.fields)
  fieldOrder,  \* iteration order of the _meta.fields dictionary
  pc,          \* position of each editor inside save()
  doc,         \* each editor's in-memory Document (_values and _version)
  aux,         \* per editor: version at load, save() arguments, lease, provenance
  old,         \* old_document returned by _lock to each editor
  res,         \* outcome of each editor's last save()
  tasks,       \* per editor: jobs its current save() queued with .delay()
  hist,        \* every (pk, version, revisable values) a stored document had
  refs,        \* reference fields of the stored documents: DocIds -> record
  delPc,       \* position of the deleting process
  delStack,    \* call stack of nested delete() invocations
  delTarget,   \* the document the top-level delete() was called on
  delTasks,    \* pks handed to search_index_remove.delay
  delRes,      \* outcome of the top-level delete()
  cref,        \* an in-memory CachedReferenceDocument: id, version, mirrored a, b
  crefRes,     \* the last sync() call on cref: its outcome and whose document it got
  syncs,       \* number of sync() calls made on cref
  tstore,      \* the referring collection: target id -> stored record
  jobs,        \* the celery queue: set of pending job records
  jobLog,      \* the job system's record of finished jobs
  revOut,      \* the last cache_spawn_syncers run over the reference graph
  meta,        \* a schema under construction: its _meta
  regRes,      \* the last add_field call: the field, _meta before it, the outcome
  classes,     \* document classes defined so far and their reference tracking
  registry,    \* a referring class with nested references and a loaded document
  resolved,    \* the last resolve_subfield_hierarchy call: argument and outcome
  parsed,      \* the last criterion _parse_spec compiled: key, value and outcome
  built,       \* the last cached reference document class built, or the error
  chk,         \* a running _check_delete_restrict: its call stack and outcome
  reindex      \* the itsy_reindex command: its locals, the index settings, its output

vars == <<store, revisions, counters, now, ticks, fields, fieldOrder,
          pc, doc, aux, old, res, tasks, hist, refs, delPc, delStack,
          delTarget, delTasks, delRes, cref, crefRes, syncs, tstore, jobs,
          jobLog, revOut, meta, regRes, classes, registry, resolved, parsed,
          built, chk, reindex>>

editorVars == <<pc, doc, aux, old, res>>
deleteVars == <<refs, delPc, delStack, delTarget, delTasks, delRes>>
schemaVars == <<fields, fieldOrder>>
cacheVars == <<cref, crefRes, syncs, tstore, jobs, jobLog>>
toolVars == <<parsed, built, chk, reindex>>
declVars == <<classes, registry, resolved, toolVars>>
metaVars == <<revOut, meta, regRes, declVars>>

\* ---------------------------------------------------------------- schema
\* Descriptor of an IntegerField: Field.__init__ flags plus max_value.
IntField(req, dflt, rev, max) ==
  [kind |-> "integer", required |-> req, default |-> dflt,
   revisable |-> rev, max_value |-> max]

\* The primary key added by MetaDocument when the class declares none.
SerialPk ==
  [kind |-> "serial", required |-> FALSE, default |-> Null,
   revisable |-> TRUE, max_value |-> Null]

\* Document with a required validated field a and a required defaulted,
\* non-revisable field b.
DefaultSchema ==
  [pk |-> SerialPk,
   a  |-> IntField(TRUE, Null, TRUE, 1),
   b  |-> IntField(TRUE, 1, FALSE, Null)]

\* Values an editor assigns to a field: a takes any value, b only None or
\* the value its default supplier gives.
FieldInputs(f) ==
  IF f = "a" THEN UserValues \cup {Null} ELSE {Null, DefaultSchema.b.default}

FieldNames == {"pk", "a", "b"}

Permutations3 ==
  {<<x, y, z>> : x \in FieldNames, y \in FieldNames, z \in FieldNames}

FieldOrders == {s \in Permutations3 : s[1] # s[2] /\ s[1] # s[3] /\ s[2] # s[3]}

\* ------------------------------------------------------ stored documents
NoDoc == [exists |-> FALSE, a |-> Null, b |-> Null, version |-> 0, mutex |-> 0,
          last_update |-> 0, last_author |-> "none"]

NoMem == [pk |-> Null, version |-> Null, a |-> Null, b |-> Null]

\* DOCUMENT_DEFAULT_TASKS, the tasks argument of save() left at None.
DefaultTasks == [reference_cache |-> TRUE, search_indices |-> TRUE]

\* DocumentSource.Db, the provenance of a loaded or saved document.
SourceDb == "Db"

NoAux == [loaded |-> Null, snapshot |-> FALSE, lease |-> Null,
          tasks |-> DefaultTasks, source |-> "unset", author |-> "none"]

\* A CachedReferenceDocument as constructed: nothing mirrored yet.
NoRef == [id |-> Null, version |-> Null, a |-> Null, b |-> Null]

\* The referring documents, and a slot of their collection that is empty.
TargetIds == 1..MaxTargets
NoTarget == [exists |-> FALSE, version |-> 0, mutex |-> 0, ref |-> NoRef]

NoRefs == [k \in {"c1", "c2", "r"} |-> Null]

\* IntegerField.to_store / from_store: int(value).
IntToStore(v) == v

\* Field.to_store of a non-null value, None is written as null.
ToStore(f, v) == IF v = Null THEN Null ELSE IntToStore(v)

\* _set_from_db: null stored values are skipped, others go through from_store.
FromStore(f, v) == IF v = Null THEN Null ELSE IntToStore(v)

\* ----------------------------------------------------------- _db_prepare
\* Field.pre_save: a null value is replaced by the default supplier's value.
FieldPreSave(fs, f, v, ctr) ==
  IF v = Null /\ fs[f].default # Null
    THEN [value |-> fs[f].default, ctr |-> ctr, err |-> "none"]
    ELSE [value |-> v, ctr |-> ctr, err |-> "none"]

\* The allocation as a read of the counter followed by a separate write that
\* is lost: the value is taken, the counter document stays.
SerialPreSaveNoInc(v, ctr, update) ==
  IF update THEN [value |-> v, ctr |-> ctr, err |-> "none"]
  ELSE IF v # Null THEN [value |-> v, ctr |-> ctr, err |-> "ValueError"]
  ELSE [value |-> ctr + 1, ctr |-> ctr, err |-> "none"]

\* SerialField.pre_save: on insert a value set by hand is refused, otherwise
\* the counter document is incremented ($inc, upsert) and its value taken.
SerialPreSave(v, ctr, update) ==
  IF update THEN [value |-> v, ctr |-> ctr, err |-> "none"]
  ELSE IF v # Null THEN [value |-> v, ctr |-> ctr, err |-> "ValueError"]
  ELSE [value |-> ctr + 1, ctr |-> ctr + 1, err |-> "none"]

\* field.pre_save(value, self, update = update): the value and the counter
\* after the hook of the field's variant.
PreSave(fs, f, v, ctr, update) ==
  IF fs[f].kind = "serial" THEN SerialPreSave(v, ctr, update)
  ELSE FieldPreSave(fs, f, v, ctr)

\* IntegerField.validate: the variant-specific range check.
VariantValid(fs, f, v) ==
  fs[f].max_value = Null \/ v <= fs[f].max_value

\* _validate without the required check.
FieldValidNoRequired(fs, f, v) ==
  v # Null => VariantValid(fs, f, v)

\* Field._validate: required check, then the variant check on non-null values.
FieldValid(fs, f, v) ==
  /\ ~(v = Null /\ fs[f].required)
  /\ (v # Null => VariantValid(fs, f, v))

\* BaseDocument._db_prepare: fields are prepared and validated one by one in
\* dictionary order; the first failure aborts with what was done so far.
RECURSIVE DbPrepare(_, _, _, _, _, _)
DbPrepare(fs, order, i, d, ctr, update) ==
  IF i > Len(order) THEN [doc |-> d, ctr |-> ctr, err |-> "none"]
  ELSE LET f == order[i]
           pre == PreSave(fs, f, d[f], ctr, update)
       IN IF pre.err # "none"
            THEN [doc |-> d, ctr |-> pre.ctr, err |-> pre.err]
          ELSE IF ~FieldValid(fs, f, pre.value)
            THEN [doc |-> d, ctr |-> pre.ctr, err |-> "ValidationError"]
          ELSE DbPrepare(fs, order, i + 1, [d EXCEPT ![f] = pre.value],
                         pre.ctr, update)

\* ------------------------------------------------------------ schema meta
\* Document.Meta defaults.
MetaRevisable == TRUE
MetaSearchable == TRUE

\* The tasks argument of save(): None, False, or a dictionary that may give
\* either key.
TaskArgs ==
  {[kind |-> "none", reference_cache |-> "absent", search_indices |-> "absent"],
   [kind |-> "false", reference_cache |-> "absent", search_indices |-> "absent"]}
  \cup [kind : {"dict"}, reference_cache : {"absent", "true", "false"},
        search_indices : {"absent", "true", "false"}]

NoTaskArg == [kind |-> "none", reference_cache |-> "absent", search_indices |-> "absent"]

\* Document.save: the tasks dictionary handed to _save_to_db, read with
\* tasks.get(key, False).
SaveTasks(arg) ==
  IF arg.kind = "none" THEN DefaultTasks
  ELSE IF arg.kind = "false"
    THEN [reference_cache |-> FALSE, search_indices |-> FALSE]
  ELSE [reference_cache |-> IF arg.reference_cache = "absent"
                              THEN DefaultTasks.reference_cache
                              ELSE arg.reference_cache = "true",
        search_indices |-> IF arg.search_indices = "absent"
                             THEN DefaultTasks.search_indices
                             ELSE arg.search_indices = "true"]

\* Python truth value of a stored integer: None and 0 are false.
Truthy(v) == v # Null /\ v # 0

\* The $set part of the update built from the prepared document (_id removed).
SetMap(d) == [f \in UserFields |-> ToStore(f, d[f])]

\* Document._modified_fields(old_document, document['$set']): the names of
\* the fields whose value under db_name differs; the $set map has no "_id".
ModifiedFields(fs, oldDoc, oldPk, d) ==
  {f \in DOMAIN fs :
     IF f = "pk" THEN Null # oldPk ELSE SetMap(d)[f] # oldDoc[f]}

\* Document.dispatch_update_tasks: the jobs queued with .delay().
DispatchUpdateTasks(t, pk, modified) ==
  (IF t.reference_cache
     THEN {[kind |-> "cache_spawn_syncers", pk |-> pk, modified |-> modified]}
     ELSE {})
  \cup
  (IF t.search_indices /\ MetaSearchable
     THEN {[kind |-> "search_index_update", pk |-> pk, modified |-> {}]}
     ELSE {})

\* The revision document written by _lock: only revisable fields whose
\* stored value is true in the Python sense are copied into the snapshot.
RevisionSnapshot(fs, oldDoc, oldPk) ==
  [f \in DOMAIN fs |->
     LET v == IF f = "pk" THEN oldPk ELSE oldDoc[f]
     IN IF fs[f].revisable /\ Truthy(v) THEN v ELSE Null]

\* revisions.update({_id: "<pk>.<version>"}, {...}, upsert = True)
RevisionUpsert(revs, rec) ==
  {r \in revs : ~(r.doc = rec.doc /\ r.version = rec.version)} \cup {rec}

\* What the documents collection holds for pk after a write, for the record:
\* the stored version and the stored values of the revisable fields.
HistOf(fs, pk, s) ==
  IF s.exists
    THEN {[doc |-> pk, version |-> s.version,
           a |-> IF fs["a"].revisable THEN s.a ELSE Null,
           b |-> IF fs["b"].revisable THEN s.b ELSE Null]}
    ELSE {}

\* ---------------------------------------------------------------- editors
\* doc_class.find(pk = d).one(): load a stored document (_set_from_db).
Load(e, d) ==
  /\ pc[e] = "idle"
  /\ store[d].exists
  /\ pc' = [pc EXCEPT ![e] = "loaded"]
  /\ doc' = [doc EXCEPT ![e] = [pk |-> d, version |-> store[d].version,
                                a |-> FromStore("a", store[d].a),
                                b |-> FromStore("b", store[d].b)]]
  /\ aux' = [aux EXCEPT ![e] = [NoAux EXCEPT !.loaded = store[d].version,
                                              !.source = SourceDb]]
  /\ UNCHANGED <<store, revisions, counters, now, ticks, old, res, tasks>>
  /\ UNCHANGED <<schemaVars, metaVars, cacheVars, deleteVars, hist>>

\* _set_from_db decoding only the keys the document holds no value for.
SetFromDbNoClear(mem, rec) ==
  [pk |-> mem.pk, version |-> rec.version,
   a |-> IF mem.a # Null THEN mem.a ELSE FromStore("a", rec.a),
   b |-> IF mem.b # Null THEN mem.b ELSE FromStore("b", rec.b)]

\* Document._set_from_db(data) on the record found under the document's pk:
\* the version is taken from the record, the values are cleared and every
\* stored non-null value is decoded.
SetFromDb(mem, rec) ==
  [pk |-> mem.pk, version |-> rec.version,
   a |-> FromStore("a", rec.a), b |-> FromStore("b", rec.b)]

\* Document.refresh(): find_one by the pk; DoesNotExist when there is no
\* record, else the document is set from the record.
Refresh(e) ==
  /\ pc[e] = "loaded"
  /\ IF store[doc[e].pk].exists
       THEN /\ doc' = [doc EXCEPT ![e] = SetFromDb(doc[e], store[doc[e].pk])]
            /\ aux' = [aux EXCEPT ![e] = [NoAux EXCEPT
                                            !.loaded = store[doc[e].pk].version,
                                            !.source = SourceDb]]
            /\ res' = [res EXCEPT ![e] = "refreshed"]
       ELSE /\ res' = [res EXCEPT ![e] = "DoesNotExist"]
            /\ UNCHANGED <<doc, aux>>
  /\ UNCHANGED <<store, revisions, counters, now, ticks, pc, old, tasks>>
  /\ UNCHANGED <<schemaVars, metaVars, cacheVars, deleteVars, hist>>

\* Document(**kwargs): a new in-memory document without pk and version.
New(e, va, vb) ==
  /\ pc[e] = "idle"
  /\ pc' = [pc EXCEPT ![e] = "new"]
  /\ doc' = [doc EXCEPT ![e] = [NoMem EXCEPT !.a = va, !.b = vb]]
  /\ UNCHANGED <<store, revisions, counters, now, ticks, aux, old, res, tasks>>
  /\ UNCHANGED <<schemaVars, metaVars, cacheVars, deleteVars, hist>>

\* Field.__set__: assign a field of a loaded document.
SetField(e, f, v) ==
  /\ pc[e] = "loaded"
  /\ doc[e][f] # v
  /\ doc' = [doc EXCEPT ![e][f] = v]
  /\ UNCHANGED <<store, revisions, counters, now, ticks, pc, aux, old, res, tasks>>
  /\ UNCHANGED <<schemaVars, metaVars, cacheVars, deleteVars, hist>>

\* save(snapshot, tasks, author) up to the first write to the documents
\* collection: _db_prepare (pre_save hooks, which allocate the serial pk on
\* insert, and validation).
SavePrepareBy(e, snapshot, targ, author) ==
  /\ pc[e] \in {"new", "loaded"}
  /\ LET update == doc[e].version # Null
         p == DbPrepare(fields, fieldOrder, 1, doc[e], counters, update)
     IN /\ counters' = p.ctr
        /\ doc' = [doc EXCEPT ![e] = p.doc]
        /\ aux' = [aux EXCEPT ![e].snapshot = snapshot,
                              ![e].tasks = SaveTasks(targ),
                              ![e].author = author]
        /\ IF p.err # "none"
             THEN /\ pc' = [pc EXCEPT ![e] = "failed"]
                  /\ res' = [res EXCEPT ![e] = p.err]
             ELSE /\ pc' = [pc EXCEPT ![e] = IF update THEN "lock" ELSE "insert"]
                  /\ UNCHANGED res
  /\ UNCHANGED <<store, revisions, now, ticks, old, tasks>>
  /\ UNCHANGED <<schemaVars, metaVars, cacheVars, deleteVars, hist>>

\* save(snapshot, tasks) with the author argument left at None.
SavePrepareWith(e, snapshot, targ) == SavePrepareBy(e, snapshot, targ, "none")

\* save(snapshot) with the tasks argument left at None.
SavePrepare(e, snapshot) == SavePrepareWith(e, snapshot, NoTaskArg)

\* The filter with the lease window counted twice: the mutex must be more
\* than the window in the past.
LockMatchesLate(s, version, t) ==
  s.exists /\ s.mutex < t - LeaseSeconds /\ s.version = version

\* The filter with the mutex compared by $lte instead of $lt.
LockMatchesLte(s, version, t) ==
  s.exists /\ s.mutex <= t /\ s.version = version

\* The find_and_modify filter of _lock.
LockMatches(s, version, t) ==
  s.exists /\ s.mutex < t /\ s.version = version

\* _lock as a plain update followed by a find: the lease is written whether
\* or not the filter matched.
LockWritesAlways(e) ==
  /\ pc[e] = "lock"
  /\ LET pk == doc[e].pk
         s == store[pk]
     IN /\ store' = [store EXCEPT ![pk].mutex = now + LeaseSeconds]
        /\ IF LockMatches(s, doc[e].version, now)
             THEN /\ old' = [old EXCEPT ![e] = s]
                  /\ aux' = [aux EXCEPT ![e].lease = now + LeaseSeconds]
                  /\ pc' = [pc EXCEPT ![e] =
                              IF aux[e].snapshot /\ MetaRevisable
                                THEN "snapshot" ELSE "commit"]
                  /\ UNCHANGED res
             ELSE /\ pc' = [pc EXCEPT ![e] = "failed"]
                  /\ res' = [res EXCEPT ![e] = "MutexNotAcquired"]
                  /\ UNCHANGED <<old, aux>>
  /\ UNCHANGED <<revisions, counters, now, ticks, doc, tasks>>
  /\ UNCHANGED <<schemaVars, metaVars, cacheVars, deleteVars, hist>>

\* Document._lock, the find_and_modify: acquire the editorial mutex.
Lock(e) ==
  /\ pc[e] = "lock"
  /\ LET pk == doc[e].pk
         s == store[pk]
     IN IF LockMatches(s, doc[e].version, now)
          THEN /\ store' = [store EXCEPT ![pk].mutex = now + LeaseSeconds]
               /\ old' = [old EXCEPT ![e] = s]
               /\ aux' = [aux EXCEPT ![e].lease = now + LeaseSeconds]
               /\ pc' = [pc EXCEPT ![e] =
                           IF aux[e].snapshot /\ MetaRevisable
                             THEN "snapshot" ELSE "commit"]
               /\ UNCHANGED res
          ELSE /\ pc' = [pc EXCEPT ![e] = "failed"]
               /\ res' = [res EXCEPT ![e] = "MutexNotAcquired"]
               /\ UNCHANGED <<store, old, aux>>
  /\ UNCHANGED <<revisions, counters, now, ticks, doc, tasks>>
  /\ UNCHANGED <<schemaVars, metaVars, cacheVars, deleteVars, hist>>

\* The revisions upsert stamped with the time and the author of the save
\* that makes it.
SnapshotStamped(e) ==
  /\ pc[e] = "snapshot"
  /\ revisions' = RevisionUpsert(revisions,
       [doc |-> doc[e].pk, version |-> doc[e].version,
        created |-> now, author |-> aux[e].author,
        document |-> RevisionSnapshot(fields, old[e], doc[e].pk)])
  /\ pc' = [pc EXCEPT ![e] = "commit"]
  /\ UNCHANGED <<store, counters, now, ticks, doc, aux, old, res, tasks>>
  /\ UNCHANGED <<schemaVars, metaVars, cacheVars, deleteVars, hist>>

\* Document._lock, the revisions upsert for "<pk>.<version>".
Snapshot(e) ==
  /\ pc[e] = "snapshot"
  /\ revisions' = RevisionUpsert(revisions,
       [doc |-> doc[e].pk, version |-> doc[e].version,
        created |-> old[e].last_update, author |-> old[e].last_author,
        document |-> RevisionSnapshot(fields, old[e], doc[e].pk)])
  /\ pc' = [pc EXCEPT ![e] = "commit"]
  /\ UNCHANGED <<store, counters, now, ticks, doc, aux, old, res, tasks>>
  /\ UNCHANGED <<schemaVars, metaVars, cacheVars, deleteVars, hist>>

\* The commit of _save_to_db: collection.update({_id: pk}, {$set, $inc}),
\* then the in-memory version bump and the task dispatch.
CommitUpdate(s, d, t, author) ==
  IF s.exists
    THEN [s EXCEPT !.a = SetMap(d).a, !.b = SetMap(d).b,
                   !.mutex = t - HourSeconds, !.version = @ + 1,
                   !.last_update = t, !.last_author = author]
    ELSE s

Commit(e) ==
  /\ pc[e] = "commit"
  /\ LET pk == doc[e].pk
     IN /\ store' = [store EXCEPT ![pk] = CommitUpdate(store[pk], doc[e], now,
                                                         aux[e].author)]
        /\ doc' = [doc EXCEPT ![e].version = @ + 1]
        /\ tasks' = [tasks EXCEPT ![e] = DispatchUpdateTasks(aux[e].tasks, pk,
                              ModifiedFields(fields, old[e], pk, doc[e]))]
  /\ hist' = hist \cup HistOf(fields, doc[e].pk, store'[doc[e].pk])
  /\ pc' = [pc EXCEPT ![e] = "done"]
  /\ res' = [res EXCEPT ![e] = "ok"]
  /\ aux' = [aux EXCEPT ![e].source = SourceDb]
  /\ UNCHANGED <<revisions, counters, now, ticks, old>>
  /\ UNCHANGED <<schemaVars, metaVars, cacheVars, deleteVars>>

\* The insert branch dispatching with the caller's tasks as they are.
InsertKeepsCacheTask(e) ==
  /\ pc[e] = "insert"
  /\ LET pk == doc[e].pk
     IN /\ store' = [store EXCEPT ![pk] =
                       [exists |-> TRUE, a |-> SetMap(doc[e]).a,
                        b |-> SetMap(doc[e]).b, version |-> 1,
                        mutex |-> now - HourSeconds,
                        last_update |-> now, last_author |-> aux[e].author]]
        /\ tasks' = [tasks EXCEPT ![e] = DispatchUpdateTasks(aux[e].tasks, pk, {})]
  /\ doc' = [doc EXCEPT ![e].version = 1]
  /\ hist' = hist \cup HistOf(fields, doc[e].pk, store'[doc[e].pk])
  /\ pc' = [pc EXCEPT ![e] = "done"]
  /\ res' = [res EXCEPT ![e] = "ok"]
  /\ aux' = [aux EXCEPT ![e].source = SourceDb]
  /\ UNCHANGED <<revisions, counters, now, ticks, old>>
  /\ UNCHANGED <<schemaVars, metaVars, cacheVars, deleteVars>>

\* The insert branch of _save_to_db: collection.insert with version 1 and an
\* already released mutex; reference_cache is switched off for the dispatch.
Insert(e) ==
  /\ pc[e] = "insert"
  /\ LET pk == doc[e].pk
     IN /\ store' = [store EXCEPT ![pk] =
                       [exists |-> TRUE, a |-> SetMap(doc[e]).a,
                        b |-> SetMap(doc[e]).b, version |-> 1,
                        mutex |-> now - HourSeconds,
                        last_update |-> now, last_author |-> aux[e].author]]
        /\ tasks' = [tasks EXCEPT ![e] = DispatchUpdateTasks(
                      [aux[e].tasks EXCEPT !.reference_cache = FALSE], pk, {})]
  /\ doc' = [doc EXCEPT ![e].version = 1]
  /\ hist' = hist \cup HistOf(fields, doc[e].pk, store'[doc[e].pk])
  /\ pc' = [pc EXCEPT ![e] = "done"]
  /\ res' = [res EXCEPT ![e] = "ok"]
  /\ aux' = [aux EXCEPT ![e].source = SourceDb]
  /\ UNCHANGED <<revisions, counters, now, ticks, old>>
  /\ UNCHANGED <<schemaVars, metaVars, cacheVars, deleteVars>>

\* The caller drops the document instance after save() returned or raised.
Finish(e) ==
  /\ pc[e] \in {"done", "failed"}
  /\ pc' = [pc EXCEPT ![e] = "idle"]
  /\ doc' = [doc EXCEPT ![e] = NoMem]
  /\ aux' = [aux EXCEPT ![e] = NoAux]
  /\ old' = [old EXCEPT ![e] = NoDoc]
  /\ res' = [res EXCEPT ![e] = "none"]
  /\ tasks' = [tasks EXCEPT ![e] = {}]
  /\ UNCHANGED <<store, revisions, counters, now, ticks>>
  /\ UNCHANGED <<schemaVars, metaVars, cacheVars, deleteVars, hist>>

\* The process of editor e dies between _lock and the commit: the lease it
\* took stays in the store, its in-memory document is gone.
Crash(e) ==
  /\ pc[e] \in {"snapshot", "commit"}
  /\ pc' = [pc EXCEPT ![e] = "idle"]
  /\ doc' = [doc EXCEPT ![e] = NoMem]
  /\ aux' = [aux EXCEPT ![e] = NoAux]
  /\ old' = [old EXCEPT ![e] = NoDoc]
  /\ res' = [res EXCEPT ![e] = "none"]
  /\ UNCHANGED <<store, revisions, counters, now, ticks, tasks>>
  /\ UNCHANGED <<schemaVars, metaVars, cacheVars, deleteVars, hist>>

\* Wall-clock time passes between two store operations: exactly the lease
\* window, or just more than it.
Tick(d) ==
  /\ ticks < MaxTicks
  /\ ticks' = ticks + 1
  /\ now' = now + d
  /\ UNCHANGED <<store, revisions, counters, tasks>>
  /\ UNCHANGED <<editorVars, schemaVars, metaVars, cacheVars, deleteVars, hist>>

TickSteps == {LeaseSeconds, LeaseSeconds + 1}

\* ------------------------------------------------------ field registration
\* DocumentMetadata.__init__: no field, no primary key.
NewMeta(embedded) ==
  [embedded |-> embedded, fields |-> {}, db_fields |-> {},
   primary_key_field |-> "none"]

\* Field.__init__(db_name, primary_key): a primary key is stored as "_id"
\* whatever db_name was given; the field has no name yet.
FieldInit(db_name, primary_key) ==
  [name |-> "none",
   db_name |-> IF primary_key THEN "_id" ELSE db_name,
   primary_key |-> primary_key]

\* The naming part of Field.contribute_to_class: the attribute name becomes
\* the field's name, and its db_name when none was given.
FieldNamed(f, name) ==
  [f EXCEPT !.name = name,
            !.db_name = IF f.db_name = "none" THEN name ELSE f.db_name]

\* The values the application gives: attribute names and db_name arguments.
NameInputs == {"pk", "a", "b"}
DbNameInputs == {"none", "_id", "a"}

\* add_field looking only at the logical name.
FieldAddFieldNameOnly(mt, f) ==
  IF \E g \in mt.fields : g.name = f.name
    THEN [meta |-> mt, err |-> "KeyError"]
    ELSE [meta |-> [mt EXCEPT
                     !.fields = {g \in @ : g.name # f.name} \cup {f},
                     !.db_fields = {g \in @ : g.db_name # f.db_name}
                                   \cup {[db_name |-> f.db_name, name |-> f.name]}],
          err |-> "none"]

\* FieldMetadata.add_field: KeyError when the name or the db_name is taken,
\* else the field is entered in both dictionaries.
FieldAddField(mt, f) ==
  IF \E g \in mt.fields : g.name = f.name
    THEN [meta |-> mt, err |-> "KeyError"]
  ELSE IF \E g \in mt.db_fields : g.db_name = f.db_name
    THEN [meta |-> mt, err |-> "KeyError"]
  ELSE [meta |-> [mt EXCEPT
                   !.fields = {g \in @ : g.name # f.name} \cup {f},
                   !.db_fields = {g \in @ : g.db_name # f.db_name}
                                 \cup {[db_name |-> f.db_name, name |-> f.name]}],
        err |-> "none"]

\* DocumentMetadata.add_field: the field is entered by the base class first;
\* a primary key is then refused with ImproperlyConfigured when there is one
\* already, when the document is embedded or when its db_name is not "_id".
DocAddField(mt, f) ==
  LET r == FieldAddField(mt, f)
  IN IF r.err # "none" THEN r
     ELSE IF ~f.primary_key THEN r
     ELSE IF mt.primary_key_field # "none" \/ mt.embedded \/ f.db_name # "_id"
       THEN [meta |-> r.meta, err |-> "ImproperlyConfigured"]
     ELSE [meta |-> [r.meta EXCEPT !.primary_key_field = f.name],
           err |-> "none"]

\* No add_field call has been made.
NoRegRes ==
  [called |-> FALSE, field |-> FieldInit("none", FALSE),
   before |-> NewMeta(FALSE), err |-> "none"]

\* A field constructed with the given arguments is installed under the
\* attribute name: cls._meta.add_field(field).
RegisterField(name, db_name, primary_key) ==
  /\ LET f == FieldNamed(FieldInit(db_name, primary_key), name)
         r == DocAddField(meta, f)
     IN /\ meta' = r.meta
        /\ regRes' = [called |-> TRUE, field |-> f, before |-> meta, err |-> r.err]
  /\ UNCHANGED <<store, revisions, counters, now, ticks, tasks, hist>>
  /\ UNCHANGED <<editorVars, schemaVars, cacheVars, deleteVars, revOut, declVars>>

\* ----------------------------------------------------------------- delete
\* The reference fields of the document class, all pointing at the class
\* itself: c1 and c2 with on_delete = CASCADE, r with on_delete = RESTRICT.
RefFields == {"c1", "c2", "r"}

OnDelete(k) == IF k = "r" THEN RESTRICT ELSE CASCADE

\* _meta.reverse_references of the class: one entry per reference field.
ReverseReferences == <<"c1", "c2", "r">>

\* A result set in _id order.
RECURSIVE SortedSeq(_)
SortedSeq(S) ==
  IF S = {} THEN <<>>
  ELSE LET m == CHOOSE x \in S : \A y \in S : x <= y
       IN <<m>> \o SortedSeq(S \ {m})

\* doc_class.find(<field_path> = pk): stored documents whose reference
\* field k holds the identifier d.
Referrers(st, rf, k, d) ==
  {x \in DocIds : st[x].exists /\ rf[x][k] = d}

\* The fields of the referenced document each reference field mirrors: its
\* dependencies.
RefDepends(k) ==
  IF k = "c1" THEN {"a"} ELSE IF k = "c2" THEN {"b"} ELSE {"a", "b"}

\* field.reference_path of the reference field k.
ReferencePath(k) ==
  IF k = "c1" THEN "c1.id" ELSE IF k = "c2" THEN "c2.id" ELSE "r.id"

\* The modified_fields argument: None, or a collection of field names.
ModifiedInputs ==
  {[none |-> TRUE, set |-> {}]}
  \cup {[none |-> FALSE, set |-> m] :
          m \in {{}, {"pk"}, {"pk", "a"}, {"pk", "b"}, {"pk", "a", "b"}}}

\* No entry of the reverse references is ever skipped.
EntrySkippedNever(k, m) == FALSE

\* get_reverse_references: an entry is skipped when modified_fields is given
\* and holds none of the entry's dependencies.
EntrySkipped(k, m) ==
  ~m.none /\ RefDepends(k) \cap m.set = {}

\* get_reverse_references, the loop over _meta.reverse_references from entry
\* i on: each match of an entry that is not skipped gets the entry's field
\* path appended to the list under its id.
RECURSIVE ReverseReferenceMap(_, _, _, _, _, _)
ReverseReferenceMap(st, rf, pk, m, i, acc) ==
  IF i > Len(ReverseReferences) THEN acc
  ELSE LET k == ReverseReferences[i]
           found == IF EntrySkipped(k, m) THEN {} ELSE Referrers(st, rf, k, pk)
           next == [x \in DOMAIN acc \cup found |->
                      (IF x \in DOMAIN acc THEN acc[x] ELSE <<>>)
                      \o (IF x \in found THEN <<ReferencePath(k)>> ELSE <<>>)]
       IN ReverseReferenceMap(st, rf, pk, m, i + 1, next)

\* Nothing has been computed.
NoRevOut ==
  [pk |-> Null, m |-> [none |-> TRUE, set |-> {}], map |-> <<>>, units |-> {}]

\* The task cache_spawn_syncers(doc_class, d, m) over the reference graph:
\* one cache_resync.delay per key of the mapping, with the key's list.
SpawnSyncersFor(d, m) ==
  /\ revOut.pk = Null
  /\ store[d].exists
  /\ LET map == ReverseReferenceMap(store, refs, d, m, 1, <<>>)
     IN revOut' = [pk |-> d, m |-> m, map |-> map,
                   units |-> {[src |-> d, target |-> x, fields |-> map[x]] :
                                x \in DOMAIN map}]
  /\ UNCHANGED <<store, revisions, counters, now, ticks, tasks, hist>>
  /\ UNCHANGED <<editorVars, schemaVars, cacheVars, deleteVars, meta, regRes, declVars>>

\* --------------------------------------------------------- subfield paths
\* The schemas of a document class and of what it nests.  Doc has a text
\* field, an embedded document, a cached reference and a list; the embedded
\* class Emb nests Inner; Ref is the cached reference document (id, version
\* and a mirrored field).  Each field has its db_name and the schema
\* get_subfield_metadata returns, "none" for None.
SchemaNames == {"Doc", "Emb", "Inner", "Ref"}

SchemaOf(s) ==
  IF s = "Doc" THEN
    [title |-> [db_name |-> "t",  sub |-> "none"],
     emb   |-> [db_name |-> "e",  sub |-> "Emb"],
     ref   |-> [db_name |-> "r",  sub |-> "Ref"],
     tags  |-> [db_name |-> "tg", sub |-> "none"]]
  ELSE IF s = "Emb" THEN
    [x     |-> [db_name |-> "ex", sub |-> "none"],
     inner |-> [db_name |-> "in", sub |-> "Inner"]]
  ELSE IF s = "Inner" THEN
    [y     |-> [db_name |-> "gy", sub |-> "none"]]
  ELSE
    [id      |-> [db_name |-> "id",       sub |-> "none"],
     version |-> [db_name |-> "_version", sub |-> "none"],
     title   |-> [db_name |-> "t",        sub |-> "none"]]

\* The names a caller puts in a path: field names of the schemas and a name
\* no schema has.
PathElements ==
  UNION {DOMAIN SchemaOf(s) : s \in SchemaNames} \cup {"zz"}

PathInputs == UNION {[1..n -> PathElements] : n \in 0..MaxPathLen}

NoResolved == [called |-> FALSE, path |-> <<>>, out |-> <<>>, err |-> "none"]

\* resolve_subfield_hierarchy looking every element up in the schema it
\* started from.
ResolveFlat(s, path, i, acc) ==
  IF \E n \in DOMAIN path : path[n] \notin DOMAIN SchemaOf(s)
    THEN [out |-> <<>>, err |-> "KeyError"]
    ELSE [out |-> [n \in DOMAIN path |-> SchemaOf(s)[path[n]].db_name],
          err |-> "none"]

\* FieldMetadata.resolve_subfield_hierarchy from element i on, subfields
\* being the schema s ("none" for None) and acc the db_field list so far:
\* inside a schema the element is looked up (KeyError when it is not a
\* field), its db_name appended and the walk goes on in its subfield
\* metadata; outside the element is appended as it is.
RECURSIVE ResolveSubfieldHierarchy(_, _, _, _)
ResolveSubfieldHierarchy(s, path, i, acc) ==
  IF i > Len(path) THEN [out |-> acc, err |-> "none"]
  ELSE IF s = "none"
    THEN ResolveSubfieldHierarchy("none", path, i + 1, Append(acc, path[i]))
  ELSE IF path[i] \notin DOMAIN SchemaOf(s)
    THEN [out |-> <<>>, err |-> "KeyError"]
  ELSE ResolveSubfieldHierarchy(SchemaOf(s)[path[i]].sub, path, i + 1,
                                Append(acc, SchemaOf(s)[path[i]].db_name))

\* _meta.resolve_subfield_hierarchy(path) called on the document class.
ResolvePath(path) ==
  /\ ~resolved.called
  /\ LET r == ResolveSubfieldHierarchy("Doc", path, 1, <<>>)
     IN resolved' = [called |-> TRUE, path |-> path, out |-> r.out, err |-> r.err]
  /\ UNCHANGED <<store, revisions, counters, now, ticks, tasks, hist>>
  /\ UNCHANGED <<editorVars, schemaVars, cacheVars, deleteVars, revOut, meta, regRes>>
  /\ UNCHANGED <<classes, registry, toolVars>>

\* ---------------------------------------------------------- query compiler
\* The operator suffixes _parse_spec knows.
QueryOperators ==
  {"ne", "gt", "gte", "lt", "lte", "in", "nin", "mod", "all", "size",
   "exists", "not"}

\* What key.split('__') can return: at least one segment, each a field name,
\* an operator, a name no schema has, or the empty string two adjacent
\* separators leave.
QuerySegments == {"title", "emb", "x", "zz", "ne", "in", ""}

QueryKeys == UNION {[1..n -> QuerySegments] : n \in 1..MaxKeyLen}

QueryValues == 0..1

NoParsed ==
  [called |-> FALSE, key |-> <<>>, value |-> Null, path |-> <<>>,
   op |-> "none", err |-> "none"]

\* The parameters resolve_subfield_hierarchy declares besides self, and the
\* keyword arguments the call in _parse_spec passes.
ResolveParameters == {"field_elements"}

ParseSpecKeywords == {"get_field"}

\* A Python call of resolve_subfield_hierarchy(elements, **keywords): a
\* keyword that is no parameter of the function raises TypeError before the
\* body runs; otherwise the body runs on the document's metadata.
CallResolve(elements, keywords) ==
  IF ~(keywords \subseteq ResolveParameters)
    THEN [out |-> <<>>, err |-> "TypeError"]
    ELSE ResolveSubfieldHierarchy("Doc", elements, 1, <<>>)

\* One iteration of the loop of DbResultSet._parse_spec: the key is split,
\* a final operator segment is popped, the rest is resolved, the value is
\* wrapped in the operator and stored under the joined path (kept here as
\* the sequence of store names that "." joins).
ParseKey(key, value) ==
  LET op       == IF key[Len(key)] \in QueryOperators
                    THEN key[Len(key)] ELSE "none"
      elements == IF op # "none" THEN SubSeq(key, 1, Len(key) - 1) ELSE key
      r        == CallResolve(elements, ParseSpecKeywords)
  IN IF r.err # "none"
       THEN [called |-> TRUE, key |-> key, value |-> value, path |-> <<>>,
             op |-> "none", err |-> r.err]
       ELSE [called |-> TRUE, key |-> key, value |-> value, path |-> r.out,
             op |-> op, err |-> "none"]

\* DbResultSet(document, {key: value}) built without a cursor.
ParseSpec(key, value) ==
  /\ ~parsed.called
  /\ parsed' = ParseKey(key, value)
  /\ UNCHANGED <<store, revisions, counters, now, ticks, tasks, hist>>
  /\ UNCHANGED <<editorVars, schemaVars, cacheVars, deleteVars, revOut, meta, regRes>>
  /\ UNCHANGED <<classes, registry, resolved, built, chk, reindex>>

\* -------------------------------------------- cached reference documents
\* The class of each field of the referenced document class Doc.
FieldClassOf(name) ==
  IF name = "ref" THEN "CachedReferenceField"
  ELSE IF name = "emb" THEN "EmbeddedDocumentField"
  ELSE IF name = "tags" THEN "ListField"
  ELSE "TextField"

\* What the fields argument of a CachedReferenceField can hold: the name of
\* a field (of a plain field, of a cached reference field, or of no field of
\* the referenced class), a DynamicRef marker, or a field instance.
MirrorElements ==
  {[kind |-> "name", name |-> "title"],
   [kind |-> "name", name |-> "ref"],
   [kind |-> "name", name |-> "zz"],
   [kind |-> "DynamicRef", name |-> "dyn"],
   [kind |-> "CachedReferenceField", name |-> "obj"]}

MirrorLists == UNION {[1..n -> MirrorElements] : n \in 0..MaxMirrored}

NoBuilt == [called |-> FALSE, fields |-> <<>>, attrs |-> {}, err |-> "none"]

\* The attributes every cached reference document class starts with.
BaseAttrs ==
  {[name |-> "id", cls |-> "SerialField"],
   [name |-> "version", cls |-> "IntegerField"]}

\* The loop of create_cached_reference_document from element i on: an
\* element that is a CachedReferenceField instance raises TypeError, a
\* DynamicRef becomes a ReferencedDynamicField under its alias, and any
\* other element is taken as a field name whose field is copied from the
\* referenced class (KeyError when it has no such field).
RECURSIVE CopyMirrored(_, _, _)
CopyMirrored(fs, i, attrs) ==
  IF i > Len(fs) THEN [attrs |-> attrs, err |-> "none"]
  ELSE IF fs[i].kind = "CachedReferenceField"
    THEN [attrs |-> {}, err |-> "TypeError"]
  ELSE IF fs[i].kind = "DynamicRef"
    THEN CopyMirrored(fs, i + 1,
           {a \in attrs : a.name # fs[i].name}
             \cup {[name |-> fs[i].name, cls |-> "ReferencedDynamicField"]})
  ELSE IF fs[i].name \notin DOMAIN SchemaOf("Doc")
    THEN [attrs |-> {}, err |-> "KeyError"]
  ELSE CopyMirrored(fs, i + 1,
         {a \in attrs : a.name # fs[i].name}
           \cup {[name |-> fs[i].name, cls |-> FieldClassOf(fs[i].name)]})

\* A CachedReferenceField(Doc, fields) whose referenced class is resolved:
\* prepare() builds the cached reference document class.
CreateCachedReferenceDocument(fs) ==
  /\ ~built.called
  /\ LET r == CopyMirrored(fs, 1, BaseAttrs)
     IN built' = [called |-> TRUE, fields |-> fs, attrs |-> r.attrs, err |-> r.err]
  /\ UNCHANGED <<store, revisions, counters, now, ticks, tasks, hist>>
  /\ UNCHANGED <<editorVars, schemaVars, cacheVars, deleteVars, revOut, meta, regRes>>
  /\ UNCHANGED <<classes, registry, resolved, parsed, chk, reindex>>

\* ------------------------------------------------------ reference registry
\* The fields a referring document class R can declare, every reference to
\* an already defined class: a cached reference c0; two embedded document
\* fields emb1 and emb2 of one embedded class E, which has the cached
\* reference c; an embedded document field deep of a class D, whose field e
\* embeds a class F with the cached reference c.
RefHolders == {"c0", "emb1", "emb2", "deep"}

\* The CachedReferenceField object reached through the field: the fields of
\* an embedded class are shared by every field that embeds the class.
FieldObject(h) ==
  IF h = "c0" THEN "R.c0" ELSE IF h = "deep" THEN "F.c" ELSE "E.c"

FieldObjects == {FieldObject(h) : h \in RefHolders}

\* '{0}.id'.format(field_name), with field_name built by the recursion of
\* EmbeddedDocumentField.setup_reverse_references from the field names.
NestedReferencePath(h) ==
  IF h = "c0" THEN "c0.id"
  ELSE IF h = "emb1" THEN "emb1.c.id"
  ELSE IF h = "emb2" THEN "emb2.c.id"
  ELSE "deep.e.c.id"

\* The identifiers of the referenced documents.
SourceIds == {1, 2}

\* No class R yet, no reference_path set, nothing loaded.
NoRegistry ==
  [declared |-> {},
   reference_path |-> [o \in FieldObjects |-> "none"],
   reverse_references |-> <<>>,
   loaded |-> FALSE,
   data |-> [h \in RefHolders |-> Null],
   reference_fields |-> {},
   synced |-> [source |-> Null, paths |-> {}, copies |-> {}]]

\* field.setup_reverse_references(R, name) for a field of R, down to the
\* cached reference: setup_reference sets the reference_path of the field
\* object and appends the entry to the target's reverse references.
SetupNestedReference(rg, h) ==
  [rg EXCEPT
     !.reference_path[FieldObject(h)] = NestedReferencePath(h),
     !.reverse_references =
        Append(@, [cls |-> "R", path |-> NestedReferencePath(h),
                   field |-> FieldObject(h)])]

\* The field loop of MetaDocument.__new__ for R, in the order of the
\* attribute dictionary.
RECURSIVE SetupAll(_, _, _)
SetupAll(rg, order, n) ==
  IF n > Len(order) THEN rg
  ELSE SetupAll(SetupNestedReference(rg, order[n]), order, n + 1)

\* The orders in which a class can hand over its fields: any sequence of
\* distinct fields.
HolderOrders ==
  {s \in UNION {[1..n -> RefHolders] : n \in 1..Cardinality(RefHolders)} :
     \A i, j \in DOMAIN s : i # j => s[i] # s[j]}

\* The class R is defined with the fields of order.
DefineReferring(order) ==
  /\ registry.declared = {}
  /\ registry' = [SetupAll(registry, order, 1) EXCEPT
                    !.declared = {order[n] : n \in DOMAIN order}]
  /\ UNCHANGED <<store, revisions, counters, now, ticks, tasks, hist>>
  /\ UNCHANGED <<editorVars, schemaVars, cacheVars, deleteVars, revOut, meta, regRes>>
  /\ UNCHANGED <<classes, resolved, toolVars>>

\* CachedReferenceField.from_store for every reference of the stored record:
\* the live reference is put in the top-level document's _reference_fields
\* under "<reference_path>/<id>", reference_path being the field object's.
FromStoreReferences(rg, data) ==
  {[path |-> rg.reference_path[FieldObject(h)], id |-> data[h], copy |-> h] :
     h \in {x \in rg.declared : data[x] # Null}}

\* A document of R is loaded (_set_from_db) from a stored record in which
\* the reference under each declared field is absent or one of the sources.
LoadReferring(data) ==
  /\ registry.declared # {}
  /\ ~registry.loaded
  /\ \A h \in RefHolders \ registry.declared : data[h] = Null
  /\ registry' = [registry EXCEPT
                    !.loaded = TRUE,
                    !.data = data,
                    !.reference_fields = FromStoreReferences(registry, data)]
  /\ UNCHANGED <<store, revisions, counters, now, ticks, tasks, hist>>
  /\ UNCHANGED <<editorVars, schemaVars, cacheVars, deleteVars, revOut, meta, regRes>>
  /\ UNCHANGED <<classes, resolved, toolVars>>

\* get_reverse_references of the source for the loaded document: the paths
\* of the entries whose find (path = source pk) matches the stored record.
ReversePathsFor(rg, source) ==
  {rg.reverse_references[n].path : n \in
     {i \in DOMAIN rg.reverse_references :
        \E h \in rg.declared :
          /\ NestedReferencePath(h) = rg.reverse_references[i].path
          /\ rg.data[h] = source}}

\* Document.sync_reference_field(path, document): the references kept under
\* "<path>/<document.pk>".
ReferencesUnder(rg, path, source) ==
  {r.copy : r \in {x \in rg.reference_fields : x.path = path /\ x.id = source}}

\* sync_reference_field is called on the loaded document for each path that
\* get_reverse_references gives for the source.
SyncReferenceFields(source) ==
  /\ registry.loaded
  /\ registry.synced.source = Null
  /\ LET paths == ReversePathsFor(registry, source)
     IN registry' = [registry EXCEPT !.synced =
          [source |-> source, paths |-> paths,
           copies |-> UNION {ReferencesUnder(registry, p, source) : p \in paths}]]
  /\ UNCHANGED <<store, revisions, counters, now, ticks, tasks, hist>>
  /\ UNCHANGED <<editorVars, schemaVars, cacheVars, deleteVars, revOut, meta, regRes>>
  /\ UNCHANGED <<classes, resolved, toolVars>>

\* ------------------------------------------------------ reference tracking
\* The document classes an application defines, and the attribute names of
\* their cached reference fields.
ClassNames == {"A", "B", "C"}
RefFieldNames == <<"c1", "c2">>
FieldIds == {[cls |-> c, name |-> RefFieldNames[n]] :
               c \in ClassNames, n \in DOMAIN RefFieldNames}

\* CachedReferenceField.__init__: not resolved, no callback stored.  calls
\* and setups count the runs of reference_resolved and setup_reference.
NewRefField ==
  [declared |-> FALSE, target |-> "none", document |-> "none",
   pending_resolve |-> TRUE, resolved_callback |-> FALSE,
   calls |-> 0, setups |-> 0]

\* references.pending_callbacks and registered_documents are empty at import,
\* no class has a _meta.reverse_references yet.
NoClasses ==
  [registered |-> {},
   pending |-> [c \in ClassNames |-> <<>>],
   reverse_references |-> [c \in ClassNames |-> <<>>],
   fld |-> [f \in FieldIds |-> NewRefField]]

NoChk == [pc |-> "idle", target |-> Null, stack |-> <<>>]

\* The command has not been run: the index refreshes every second.
NoReindex ==
  [pc |-> "idle", start |-> 0, last_pk |-> 0, old_last_pk |-> 0,
   cursor |-> <<>>, visited |-> <<>>, failed |-> {},
   refresh_interval |-> "1s", optimized |-> FALSE, finished |-> FALSE,
   interrupted |-> FALSE, done |-> FALSE]

InitNoTool ==
  /\ parsed = NoParsed /\ built = NoBuilt /\ chk = NoChk
  /\ reindex = NoReindex

InitNoDecl ==
  /\ classes = NoClasses /\ registry = NoRegistry /\ resolved = NoResolved
  /\ InitNoTool

\* setup_reference(document), the closure of setup_reverse_references: one
\* entry (document_class, reference_path, field) on the target's list.
SetupReference(st, f, document) ==
  [st EXCEPT
     !.reverse_references[document] =
        Append(@, [cls |-> f.cls, path |-> ReferencePath(f.name), field |-> f]),
     !.fld[f].setups = @ + 1]

\* reference_resolved(document), the closure of prepare: the field is
\* resolved, and the stored callback (if any) is run.
ReferenceResolved(st, f, document) ==
  LET s1 == [st EXCEPT !.fld[f].document = document,
                       !.fld[f].pending_resolve = FALSE,
                       !.fld[f].calls = @ + 1]
  IN IF st.fld[f].resolved_callback THEN SetupReference(s1, f, document) ELSE s1

\* track that defers every reference given by name.
TrackAlwaysPending(st, f, t) ==
  IF t.byName
    THEN IF t.name = "self"
           THEN ReferenceResolved(st, f, f.cls)
           ELSE [st EXCEPT !.pending[t.name] = Append(@, f)]
    ELSE ReferenceResolved(st, f, t.name)

\* references.track(field, document, callback): a name is resolved at once
\* when it is 'self' or a registered class and is queued otherwise; a class
\* is resolved at once.
Track(st, f, t) ==
  IF t.byName
    THEN IF t.name = "self"
           THEN ReferenceResolved(st, f, f.cls)
           ELSE IF t.name \in st.registered
             THEN ReferenceResolved(st, f, t.name)
             ELSE [st EXCEPT !.pending[t.name] = Append(@, f)]
    ELSE ReferenceResolved(st, f, t.name)

\* CachedReferenceField.setup_reverse_references: stored as the callback
\* while the reference is unresolved, run at once when it is resolved.
SetupReverseReferences(st, f) ==
  IF st.fld[f].pending_resolve
    THEN [st EXCEPT !.fld[f].resolved_callback = TRUE]
    ELSE SetupReference(st, f, st.fld[f].document)

\* Field.contribute_to_class for a cached reference: prepare(), then
\* _meta.add_field, which sets up the reverse references.
ContributeToClass(st, f, t) ==
  LET s0 == [st EXCEPT !.fld[f] = [NewRefField EXCEPT !.declared = TRUE,
                                                      !.target = t]]
  IN SetupReverseReferences(Track(s0, f, t), f)

\* The field loop of MetaDocument.__new__ over the reference fields of the
\* class; cfg[n] is the document argument of the n-th field, or NoTargetArg.
NoTargetArg == [byName |-> TRUE, name |-> "none"]

RECURSIVE ContributeAll(_, _, _, _)
ContributeAll(st, c, cfg, n) ==
  IF n > Len(cfg) THEN st
  ELSE ContributeAll(
         IF cfg[n] = NoTargetArg THEN st
         ELSE ContributeToClass(st, [cls |-> c, name |-> RefFieldNames[n]], cfg[n]),
         c, cfg, n + 1)

\* references._dispatch_callbacks(sender): the callbacks queued under the
\* class name are popped and run, then the class is registered.
RECURSIVE RunCallbacks(_, _, _, _)
RunCallbacks(st, queue, c, n) ==
  IF n > Len(queue) THEN st
  ELSE RunCallbacks(ReferenceResolved(st, queue[n], c), queue, c, n + 1)

DispatchCallbacks(st, c) ==
  LET popped == [st EXCEPT !.pending[c] = <<>>]
      done == RunCallbacks(popped, st.pending[c], c, 1)
  IN [done EXCEPT !.registered = @ \cup {c}]

\* The document arguments a field of a new class can be given: a class name
\* (of any class, or 'self'), or a class object that already exists.
TargetArgs(st) ==
  {NoTargetArg}
  \cup {[byName |-> TRUE, name |-> x] : x \in {"A", "B", "self"}}
  \cup {[byName |-> FALSE, name |-> x] : x \in st.registered}

\* MetaDocument.__new__ for class c: the fields contribute in turn, then
\* document_prepared is sent.
DefineDocument(c, cfg) ==
  /\ c \notin classes.registered
  /\ classes' = DispatchCallbacks(ContributeAll(classes, c, cfg, 1), c)
  /\ UNCHANGED <<store, revisions, counters, now, ticks, tasks, hist>>
  /\ UNCHANGED <<editorVars, schemaVars, cacheVars, deleteVars, revOut, meta, regRes>>
  /\ UNCHANGED <<registry, resolved, toolVars>>

\* ------------------------------------------------- delete check, by steps
\* A call of _check_delete_restrict on the document pk: i is the entry of
\* reverse_references its loop is at, pending the documents of the CASCADE
\* entry before it that the inner loop has not yet taken.
CheckFrame(pk) == [pk |-> pk, i |-> 1, pending |-> <<>>]

\* document._check_delete_restrict() called on a stored document.
CheckStart(d) ==
  /\ chk.pc = "idle"
  /\ store[d].exists
  /\ chk' = [pc |-> "running", target |-> d, stack |-> <<CheckFrame(d)>>]
  /\ UNCHANGED <<store, revisions, counters, now, ticks, tasks, hist>>
  /\ UNCHANGED <<editorVars, schemaVars, cacheVars, deleteVars, revOut, meta, regRes>>
  /\ UNCHANGED <<classes, registry, resolved, parsed, built, reindex>>

\* One step of the innermost running call.  With a document pending, the
\* inner loop calls the document's own _check_delete_restrict, which the
\* interpreter refuses with RuntimeError at its recursion limit; with the
\* entries exhausted the call returns; otherwise the next entry is queried:
\* RESTRICT with a match raises DeleteRestrictedByReference, CASCADE hands
\* its matches to the inner loop.
CheckStep ==
  /\ chk.pc = "running"
  /\ LET top == Head(chk.stack)
         rest == Tail(chk.stack)
     IN IF top.pending # <<>>
          THEN IF Len(chk.stack) >= MaxDepth
                 THEN chk' = [chk EXCEPT !.pc = "RuntimeError", !.stack = <<>>]
                 ELSE chk' = [chk EXCEPT !.stack =
                                <<CheckFrame(Head(top.pending)),
                                  [top EXCEPT !.pending = Tail(@)]>> \o rest]
        ELSE IF top.i > Len(ReverseReferences)
          THEN chk' = [chk EXCEPT !.stack = rest,
                                  !.pc = IF rest = <<>> THEN "returned" ELSE @]
        ELSE LET k == ReverseReferences[top.i]
                 documents == Referrers(store, refs, k, top.pk)
             IN IF OnDelete(k) = RESTRICT /\ documents # {}
                  THEN chk' = [chk EXCEPT !.pc = "restricted", !.stack = <<>>]
                  ELSE chk' = [chk EXCEPT !.stack =
                                 <<[top EXCEPT !.i = @ + 1,
                                               !.pending = IF OnDelete(k) = CASCADE
                                                             THEN SortedSeq(documents)
                                                             ELSE <<>>]>> \o rest]
  /\ UNCHANGED <<store, revisions, counters, now, ticks, tasks, hist>>
  /\ UNCHANGED <<editorVars, schemaVars, cacheVars, deleteVars, revOut, meta, regRes>>
  /\ UNCHANGED <<classes, registry, resolved, parsed, built, reindex>>

\* ------------------------------------------------------- reindex command
\* The first n elements of a sequence: cursor.limit(n).
Limit(s, n) == SubSeq(s, 1, IF Len(s) < n THEN Len(s) ELSE n)

\* The foreground branch of Command.handle up to the loop: index refresh is
\* switched off and last_pk is the --start-pk option.
ReindexStart(start) ==
  /\ reindex.pc = "idle"
  /\ reindex' = [reindex EXCEPT !.pc = "batch", !.start = start,
                                 !.last_pk = start, !.refresh_interval = "-1"]
  /\ UNCHANGED <<store, revisions, counters, now, ticks, tasks, hist>>
  /\ UNCHANGED <<editorVars, schemaVars, cacheVars, deleteVars, revOut, meta, regRes>>
  /\ UNCHANGED <<classes, registry, resolved, parsed, built, chk>>

\* The head of the while loop: old_last_pk is remembered and the batch is
\* queried, find(pk__gt = last_pk).order_by("pk").limit(batch_size).
ReindexBatch ==
  /\ reindex.pc = "batch"
  /\ reindex' = [reindex EXCEPT
       !.pc = "iter",
       !.old_last_pk = reindex.last_pk,
       !.cursor = Limit(SortedSeq({d \in DocIds : store[d].exists
                                                  /\ d > reindex.last_pk}),
                        BatchSize)]
  /\ UNCHANGED <<store, revisions, counters, now, ticks, tasks, hist>>
  /\ UNCHANGED <<editorVars, schemaVars, cacheVars, deleteVars, revOut, meta, regRes>>
  /\ UNCHANGED <<classes, registry, resolved, parsed, built, chk>>

\* One turn of the for loop: the document is saved to the search index (an
\* exception of the save is printed and ignored) and last_pk moves to it.
ReindexDocument(ok) ==
  /\ reindex.pc = "iter"
  /\ reindex.cursor # <<>>
  /\ LET pk == Head(reindex.cursor)
     IN reindex' = [reindex EXCEPT
          !.cursor = Tail(@),
          !.visited = Append(@, pk),
          !.failed = IF ok THEN @ ELSE @ \cup {pk},
          !.last_pk = pk]
  /\ UNCHANGED <<store, revisions, counters, now, ticks, tasks, hist>>
  /\ UNCHANGED <<editorVars, schemaVars, cacheVars, deleteVars, revOut, meta, regRes>>
  /\ UNCHANGED <<classes, registry, resolved, parsed, built, chk>>

\* The batch is exhausted: "Index finished" is written when last_pk did not
\* move, and the while loop goes round again.
ReindexBatchEnd ==
  /\ reindex.pc = "iter"
  /\ reindex.cursor = <<>>
  /\ reindex' = [reindex EXCEPT
       !.finished = @ \/ reindex.old_last_pk = reindex.last_pk,
       !.pc = "batch"]
  /\ UNCHANGED <<store, revisions, counters, now, ticks, tasks, hist>>
  /\ UNCHANGED <<editorVars, schemaVars, cacheVars, deleteVars, revOut, meta, regRes>>
  /\ UNCHANGED <<classes, registry, resolved, parsed, built, chk>>

\* KeyboardInterrupt while the loop runs: it is passed over, the finally
\* block restores the refresh interval and optimizes the index, and
\* "Reindex done." is written.
ReindexInterrupt ==
  /\ reindex.pc \in {"batch", "iter"}
  /\ reindex' = [reindex EXCEPT !.pc = "done", !.cursor = <<>>,
                                 !.interrupted = TRUE,
                                 !.refresh_interval = "1s",
                                 !.optimized = TRUE, !.done = TRUE]
  /\ UNCHANGED <<store, revisions, counters, now, ticks, tasks, hist>>
  /\ UNCHANGED <<editorVars, schemaVars, cacheVars, deleteVars, revOut, meta, regRes>>
  /\ UNCHANGED <<classes, registry, resolved, parsed, built, chk>>

\* The check without the recursion into the CASCADE matches: only RESTRICT
\* referrers of the document itself are seen.
CheckRaisesDirect(st, rf, d) ==
  \E i \in 1..Len(ReverseReferences) :
    LET k == ReverseReferences[i]
    IN OnDelete(k) = RESTRICT /\ Referrers(st, rf, k, d) # {}

\* Document._check_delete_restrict, whether it raises
\* DeleteRestrictedByReference: a RESTRICT entry with a match, or a CASCADE
\* match whose own check raises.
RECURSIVE CheckRaises(_, _, _)
CheckRaises(st, rf, d) ==
  \E i \in 1..Len(ReverseReferences) :
    LET k == ReverseReferences[i]
    IN \/ OnDelete(k) = RESTRICT /\ Referrers(st, rf, k, d) # {}
       \/ /\ OnDelete(k) = CASCADE
          /\ \E x \in Referrers(st, rf, k, d) : CheckRaises(st, rf, x)

\* Document._check_delete_restrict, the list it returns: the matches of
\* every CASCADE entry, entry after entry, as freshly loaded documents.
RECURSIVE CascadeDocuments(_, _, _, _)
CascadeDocuments(st, rf, d, i) ==
  IF i > Len(ReverseReferences) THEN <<>>
  ELSE LET k == ReverseReferences[i]
           found == IF OnDelete(k) = CASCADE
                      THEN SortedSeq(Referrers(st, rf, k, d)) ELSE <<>>
       IN [j \in 1..Len(found) |->
             [pk |-> found[j], version |-> st[found[j]].version]]
          \o CascadeDocuments(st, rf, d, i + 1)

\* delete() entered for the document instance x = [pk, version] on top of
\* the running delete() calls: the reverse references are checked before
\* anything is written; the exception unwinds every running delete().
EnterDelete(x, below) ==
  IF CheckRaises(store, refs, x.pk)
    THEN /\ delPc' = "failed"
         /\ delRes' = "DeleteRestrictedByReference"
         /\ delStack' = <<>>
    ELSE /\ delPc' = "lock"
         /\ delStack' = <<[pk |-> x.pk, version |-> x.version,
                           cascade |-> CascadeDocuments(store, refs, x.pk, 1)]>>
                        \o below
         /\ UNCHANGED delRes

\* document.delete() called by the user on a loaded document.
DeleteStart(d) ==
  /\ delPc = "idle"
  /\ store[d].exists
  /\ delTarget' = d
  /\ EnterDelete([pk |-> d, version |-> store[d].version], <<>>)
  /\ UNCHANGED <<store, revisions, counters, now, ticks, tasks, hist, refs, delTasks>>
  /\ UNCHANGED <<editorVars, schemaVars, metaVars, cacheVars>>

\* document.delete() called on the in-memory document editor e holds, whose
\* version is the one it was loaded at; the delete runs as its own process.
DeleteLoaded(e) ==
  /\ pc[e] = "loaded"
  /\ delPc = "idle"
  /\ delTarget' = doc[e].pk
  /\ EnterDelete([pk |-> doc[e].pk, version |-> doc[e].version], <<>>)
  /\ pc' = [pc EXCEPT ![e] = "idle"]
  /\ doc' = [doc EXCEPT ![e] = NoMem]
  /\ aux' = [aux EXCEPT ![e] = NoAux]
  /\ UNCHANGED <<store, revisions, counters, now, ticks, tasks, hist, refs, delTasks>>
  /\ UNCHANGED <<old, res, schemaVars, metaVars, cacheVars>>

\* delete() removing without looking at the outcome of the acquisition.
DeleteLockUnchecked ==
  /\ delPc = "lock"
  /\ store' = [store EXCEPT ![Head(delStack).pk].mutex = now + LeaseSeconds]
  /\ delPc' = "remove"
  /\ UNCHANGED <<delStack, delRes>>
  /\ UNCHANGED <<revisions, counters, now, ticks, tasks, hist, refs, delTarget, delTasks>>
  /\ UNCHANGED <<editorVars, schemaVars, metaVars, cacheVars>>

\* self._lock(False) of delete(): the mutex is taken, no revision is made.
DeleteLock ==
  /\ delPc = "lock"
  /\ LET top == Head(delStack)
     IN IF LockMatches(store[top.pk], top.version, now)
          THEN /\ store' = [store EXCEPT ![top.pk].mutex = now + LeaseSeconds]
               /\ delPc' = "remove"
               /\ UNCHANGED <<delStack, delRes>>
          ELSE /\ delPc' = "failed"
               /\ delRes' = "MutexNotAcquired"
               /\ delStack' = <<>>
               /\ UNCHANGED store
  /\ UNCHANGED <<revisions, counters, now, ticks, tasks, hist, refs, delTarget, delTasks>>
  /\ UNCHANGED <<editorVars, schemaVars, metaVars, cacheVars>>

\* collection.remove(pk)
DeleteRemove ==
  /\ delPc = "remove"
  /\ store' = [store EXCEPT ![Head(delStack).pk] = NoDoc]
  /\ delPc' = "revisions"
  /\ UNCHANGED <<revisions, counters, now, ticks, tasks, hist, refs, delStack,
                 delTarget, delTasks, delRes>>
  /\ UNCHANGED <<editorVars, schemaVars, metaVars, cacheVars>>

\* revisions.remove({doc: pk}) and search_index_remove.delay(...)
DeleteRevisions ==
  /\ delPc = "revisions"
  /\ LET pk == Head(delStack).pk
     IN /\ revisions' = IF MetaRevisable
                          THEN {r \in revisions : r.doc # pk} ELSE revisions
        /\ delTasks' = IF MetaSearchable THEN delTasks \cup {pk} ELSE delTasks
  /\ delPc' = "cascade"
  /\ UNCHANGED <<store, counters, now, ticks, tasks, hist, refs, delStack,
                 delTarget, delRes>>
  /\ UNCHANGED <<editorVars, schemaVars, metaVars, cacheVars>>

\* for document in cascade_documents: document.delete(); the loop of the
\* innermost running delete() takes its next document or returns.
DeleteCascade ==
  /\ delPc = "cascade"
  /\ LET top == Head(delStack)
     IN IF top.cascade # <<>>
          THEN EnterDelete(Head(top.cascade),
                 <<[top EXCEPT !.cascade = Tail(@)]>> \o Tail(delStack))
          ELSE /\ delStack' = Tail(delStack)
               /\ IF Tail(delStack) = <<>>
                    THEN delPc' = "done" /\ delRes' = "ok"
                    ELSE delPc' = "cascade" /\ UNCHANGED delRes
  /\ UNCHANGED <<store, revisions, counters, now, ticks, tasks, hist, refs,
                 delTarget, delTasks>>
  /\ UNCHANGED <<editorVars, schemaVars, metaVars, cacheVars>>

\* ------------------------------------------------------- specification
\* One document inserted at time 0 (a = 0, b defaulted), two idle editors.
InitStore ==
  [d \in DocIds |->
     IF d = 1 THEN [exists |-> TRUE, a |-> 0, b |-> 1, version |-> 1,
                    mutex |-> 0 - HourSeconds,
                    last_update |-> 0, last_author |-> "none"]
     ELSE NoDoc]

InitEditors ==
  /\ pc = [e \in Editors |-> "idle"]
  /\ doc = [e \in Editors |-> NoMem]
  /\ aux = [e \in Editors |-> NoAux]
  /\ old = [e \in Editors |-> NoDoc]
  /\ res = [e \in Editors |-> "none"]
  /\ tasks = [e \in Editors |-> {}]

\* No task has run over the reference graph.
InitNoMeta ==
  /\ revOut = NoRevOut
  /\ meta = NewMeta(FALSE)
  /\ regRes = NoRegRes
  /\ InitNoDecl

InitClock ==
  /\ now = 0
  /\ ticks = 0

\* No cached reference has been synchronised, no referring document is
\* stored and the job queue is empty.
InitNoCache ==
  /\ cref = NoRef
  /\ crefRes = [outcome |-> "none", by |-> "none"]
  /\ syncs = 0
  /\ tstore = [t \in TargetIds |-> NoTarget]
  /\ jobs = {}
  /\ jobLog = {}

InitNoDelete ==
  /\ refs = [d \in DocIds |-> NoRefs]
  /\ delPc = "idle"
  /\ delStack = <<>>
  /\ delTarget = Null
  /\ delTasks = {}
  /\ delRes = "none"

Init ==
  /\ InitEditors
  /\ InitNoMeta
  /\ InitClock
  /\ InitNoDelete
  /\ InitNoCache
  /\ store = InitStore
  /\ revisions = {}
  /\ counters = 1
  /\ hist = HistOf(DefaultSchema, 1, InitStore[1])
  /\ fields = DefaultSchema
  /\ fieldOrder = <<"pk", "a", "b">>

\* Two editors updating stored documents, every save with snapshot = True.
EditorNext(e) ==
  \/ \E d \in DocIds : Load(e, d)
  \/ \E f \in UserFields : \E v \in FieldInputs(f) : SetField(e, f, v)
  \/ (doc[e].version < MaxVersion /\ SavePrepare(e, TRUE))
  \/ Lock(e)
  \/ Snapshot(e)
  \/ Commit(e)
  \/ Finish(e)

Next ==
  \/ \E e \in Editors : EditorNext(e)
  \/ \E d \in TickSteps : Tick(d)

Spec == Init /\ [][Next]_vars

\* ------------------------------------------- sequential specification
\* The schemas a single editor is exercised on: field a required or not,
\* with or without a default supplier; b required with a default supplier.
Schemas ==
  {[pk |-> SerialPk,
    a  |-> IntField(ra, da, TRUE, 1),
    b  |-> IntField(TRUE, 1, FALSE, Null)] : ra \in BOOLEAN, da \in {Null, 1}}

\* An empty database; one editor inserts and updates documents in turn.
InitSeq ==
  /\ InitEditors
  /\ InitNoMeta
  /\ InitClock
  /\ InitNoDelete
  /\ InitNoCache
  /\ store = [d \in DocIds |-> NoDoc]
  /\ revisions = {}
  /\ counters = 0
  /\ hist = {}
  /\ fields \in Schemas
  /\ fieldOrder \in FieldOrders

SeqEditor == "e1"

NextSeq ==
  \/ \E d \in DocIds : Load(SeqEditor, d)
  \/ \E va \in FieldInputs("a"), vb \in FieldInputs("b") : New(SeqEditor, va, vb)
  \/ \E f \in UserFields : \E v \in FieldInputs(f) : SetField(SeqEditor, f, v)
  \/ /\ doc[SeqEditor].version = Null => counters < MaxSeqInserts
     /\ doc[SeqEditor].version # Null => doc[SeqEditor].version < MaxSeqVersion
     /\ SavePrepare(SeqEditor, TRUE)
  \/ Lock(SeqEditor)
  \/ Snapshot(SeqEditor)
  \/ Commit(SeqEditor)
  \/ Insert(SeqEditor)
  \/ Finish(SeqEditor)

SpecSeq == InitSeq /\ [][NextSeq]_vars

\* ------------------------------------------ save arguments specification
\* An empty database; one editor inserts and updates documents, each save()
\* with any snapshot and tasks arguments.
InitTasks ==
  /\ InitEditors
  /\ InitNoMeta
  /\ InitClock
  /\ InitNoDelete
  /\ InitNoCache
  /\ store = [d \in DocIds |-> NoDoc]
  /\ revisions = {}
  /\ counters = 0
  /\ hist = {}
  /\ fields = DefaultSchema
  /\ fieldOrder = <<"pk", "a", "b">>

NextTasks ==
  \/ \E d \in DocIds : Load(SeqEditor, d)
  \/ \E va \in FieldInputs("a"), vb \in FieldInputs("b") : New(SeqEditor, va, vb)
  \/ \E f \in UserFields : \E v \in FieldInputs(f) : SetField(SeqEditor, f, v)
  \/ /\ doc[SeqEditor].version = Null => counters < MaxSeqInserts
     /\ doc[SeqEditor].version # Null => doc[SeqEditor].version < MaxSeqVersion
     /\ \E snapshot \in BOOLEAN, targ \in TaskArgs :
          SavePrepareWith(SeqEditor, snapshot, targ)
  \/ Lock(SeqEditor)
  \/ Snapshot(SeqEditor)
  \/ Commit(SeqEditor)
  \/ Insert(SeqEditor)
  \/ Finish(SeqEditor)

SpecTasks == InitTasks /\ [][NextTasks]_vars

\* --------------------------------------------------- lease specification
\* One stored document; the updater saves it and may die holding the lease,
\* the other editor loads it and deletes it, and time passes.
Updater == "e1"
Deleter == "e2"

NextLease ==
  \/ \E e \in Editors : \E d \in DocIds : Load(e, d)
  \/ \E v \in FieldInputs("a") : SetField(Updater, "a", v)
  \/ (doc[Updater].version < MaxVersion /\ SavePrepare(Updater, TRUE))
  \/ Lock(Updater)
  \/ Snapshot(Updater)
  \/ Commit(Updater)
  \/ Finish(Updater)
  \/ Crash(Updater)
  \/ DeleteLoaded(Deleter)
  \/ DeleteLock
  \/ DeleteRemove
  \/ DeleteRevisions
  \/ DeleteCascade
  \/ \E d \in TickSteps : Tick(d)

SpecLease == Init /\ [][NextLease]_vars

\* -------------------------------------------------- refresh specification
\* One stored document: an editor loads it, edits it in memory and refreshes
\* it while the other editor updates or deletes the stored record.
Refresher == "e1"

NextRefresh ==
  \/ \E e \in Editors : \E d \in DocIds : Load(e, d)
  \/ \E e \in Editors : \E f \in UserFields : \E v \in FieldInputs(f) : SetField(e, f, v)
  \/ Refresh(Refresher)
  \/ (doc[Deleter].version < MaxVersion /\ SavePrepare(Deleter, TRUE))
  \/ Lock(Deleter)
  \/ Snapshot(Deleter)
  \/ Commit(Deleter)
  \/ Finish(Deleter)
  \/ DeleteLoaded(Deleter)
  \/ DeleteLock
  \/ DeleteRemove
  \/ DeleteRevisions
  \/ DeleteCascade

SpecRefresh == Init /\ [][NextRefresh]_vars

\* ------------------------------------------------ revisions specification
\* Two editors update the stored document, each save snapshotted and made
\* under the editor's name and
\* writing the editor's value of a; time passes, and the document may be
\* deleted.
RevisionInput(e) == IF e = Updater THEN 1 ELSE 2

RevisionEditorNext(e) ==
  \/ \E d \in DocIds : Load(e, d)
  \/ SetField(e, "a", RevisionInput(e))
  \/ (doc[e].version < MaxRevVersion /\ SavePrepareBy(e, TRUE, NoTaskArg, e))
  \/ Lock(e)
  \/ Snapshot(e)
  \/ Commit(e)
  \/ Finish(e)

NextRevisions ==
  \/ \E e \in Editors : RevisionEditorNext(e)
  \/ DeleteLoaded(Deleter)
  \/ DeleteLock
  \/ DeleteRemove
  \/ DeleteRevisions
  \/ DeleteCascade
  \/ \E d \in TickSteps : Tick(d)

SpecRevisions == Init /\ [][NextRevisions]_vars

\* ---------------------------------------------- delete race specification
\* The updater saves the stored document with a snapshot and takes its lease
\* only while no delete() has been called; the other editor loads the
\* document and deletes it; time passes.
NextRace ==
  \/ \E e \in Editors : \E d \in DocIds : Load(e, d)
  \/ SetField(Updater, "a", 1)
  \/ (doc[Updater].version < MaxVersion /\ SavePrepare(Updater, TRUE))
  \/ (delPc = "idle" /\ Lock(Updater))
  \/ Snapshot(Updater)
  \/ Commit(Updater)
  \/ Finish(Updater)
  \/ DeleteLoaded(Deleter)
  \/ DeleteLock
  \/ DeleteRemove
  \/ DeleteRevisions
  \/ DeleteCascade
  \/ \E d \in TickSteps : Tick(d)

SpecRace == Init /\ [][NextRace]_vars

\* --------------------------------------------------- serial specification
\* Two editors insert new documents concurrently, each with its own value
\* of a, and one of them also updates stored ones; saves take no snapshot, no
\* identifier is set by hand and set_counter is not called.
SerialInput(e) == IF e = Updater THEN 1 ELSE 0

SerialEditorNext(e) ==
  \/ \E d \in DocIds : Load(Updater, d)
  \/ New(e, SerialInput(e), Null)
  \/ SetField(Updater, "a", SerialInput(Updater))
  \/ /\ doc[e].version = Null => counters < MaxId
     /\ doc[e].version # Null => doc[e].version < MaxVersion
     /\ SavePrepare(e, FALSE)
  \/ Lock(e)
  \/ Commit(e)
  \/ Insert(e)
  \/ Finish(e)

NextSerial == \E e \in Editors : SerialEditorNext(e)

SpecSerial == Init /\ [][NextSerial]_vars

\* ------------------------------------------- cached reference documents
\* Python 2 ordering of two versions: None sorts before every integer.
PyLess(x, y) ==
  IF x = Null THEN y # Null ELSE y # Null /\ x < y

\* sync() refreshing only a once the cache is populated: the mirrored field
\* b keeps its cached value.
CopyFieldsOnlyA(c, d) ==
  [id |-> d.pk, version |-> d.version, a |-> d.a,
   b |-> IF c.id = Null THEN d.b ELSE c.b]

\* sync() counting its applications in the cached version instead of
\* mirroring the document's version.
CopyFieldsCounting(c, d) ==
  [id |-> d.pk, a |-> d.a, b |-> d.b,
   version |-> IF c.version = Null THEN d.version ELSE c.version + 1]

\* The copy loop of sync() and the two assignments after it: every field of
\* the cached document except id and version is read from the source
\* document, then id and version are taken from it.
CopyFields(c, d) ==
  [id |-> d.pk, version |-> d.version, a |-> d.a, b |-> d.b]

\* sync(document) without the version comparison.
SyncGivenUnordered(c, d) ==
  IF c.id # Null /\ d.pk # c.id
    THEN [ref |-> c, outcome |-> "ValueError"]
    ELSE [ref |-> CopyFields(c, d), outcome |-> "synced"]

\* CachedReferenceDocument.sync(document) with a document supplied.
SyncGiven(c, d) ==
  IF c.id # Null /\ d.pk # c.id
    THEN [ref |-> c, outcome |-> "ValueError"]
    ELSE IF c.version # Null /\ PyLess(d.version, c.version)
      THEN [ref |-> c, outcome |-> "noop"]
      ELSE [ref |-> CopyFields(c, d), outcome |-> "synced"]

\* CachedReferenceDocument.sync() without argument: the source is fetched
\* with _referenced_doc.get(pk = self.id), which raises DoesNotExist when no
\* such document is stored; no version comparison is made on this branch.
SyncFetched(c, st) ==
  IF c.id = Null \/ ~st[c.id].exists
    THEN [ref |-> c, outcome |-> "DoesNotExist"]
    ELSE [ref |-> CopyFields(c, [pk |-> c.id, version |-> st[c.id].version,
                                 a |-> FromStore("a", st[c.id].a),
                                 b |-> FromStore("b", st[c.id].b)]),
          outcome |-> "synced"]

\* The holder of the cached reference calls sync(document) with the
\* in-memory document of editor e.
SyncWith(e) ==
  /\ pc[e] \in {"new", "loaded", "done"}
  /\ syncs < MaxSyncs
  /\ LET r == SyncGiven(cref, doc[e])
     IN /\ cref' = r.ref
        /\ crefRes' = [outcome |-> r.outcome, by |-> e]
  /\ syncs' = syncs + 1
  /\ UNCHANGED <<store, revisions, counters, now, ticks, tasks, hist>>
  /\ UNCHANGED <<editorVars, schemaVars, metaVars, deleteVars, tstore, jobs, jobLog>>

\* The holder of the cached reference calls sync().
SyncFetch ==
  /\ syncs < MaxSyncs
  /\ LET r == SyncFetched(cref, store)
     IN /\ cref' = r.ref
        /\ crefRes' = [outcome |-> r.outcome, by |-> "fetch"]
  /\ syncs' = syncs + 1
  /\ UNCHANGED <<store, revisions, counters, now, ticks, tasks, hist>>
  /\ UNCHANGED <<editorVars, schemaVars, metaVars, deleteVars, tstore, jobs, jobLog>>

\* ------------------------------------------------- sync specification
\* The source schema: a is required, b is optional without default, so both
\* mirrored fields can change between versions.
SyncSchema ==
  [pk |-> SerialPk,
   a  |-> IntField(TRUE, Null, TRUE, Null),
   b  |-> IntField(FALSE, Null, TRUE, Null)]

\* Two source documents are stored, inserted at time 0.
SyncSources == {1, 2}

InitSync ==
  /\ InitEditors
  /\ InitNoMeta
  /\ InitClock
  /\ InitNoDelete
  /\ InitNoCache
  /\ store = [d \in DocIds |-> IF d \in SyncSources THEN InitStore[1] ELSE NoDoc]
  /\ revisions = {}
  /\ counters = 2
  /\ hist = UNION {HistOf(SyncSchema, d, InitStore[1]) : d \in SyncSources}
  /\ fields = SyncSchema
  /\ fieldOrder = <<"pk", "a", "b">>

Reader == "e2"

\* The updater saves the first source document, the reader holds a loaded
\* copy of either source that goes stale, and the holder of the cached
\* reference synchronises with either of their documents or by fetching.
NextSync ==
  \/ Load(Updater, 1)
  \/ \E d \in SyncSources : Load(Reader, d)
  \/ \E v \in {0, 1} : SetField(Updater, "a", v)
  \/ \E v \in {Null, 1} : SetField(Updater, "b", v)
  \/ (doc[Updater].version < MaxSyncVersion /\ SavePrepare(Updater, FALSE))
  \/ Lock(Updater)
  \/ Commit(Updater)
  \/ Finish(Updater)
  \/ \E e \in Editors : SyncWith(e)
  \/ SyncFetch

SpecSync == InitSync /\ [][NextSync]_vars

\* ------------------------------------------------------ background jobs
\* The referring documents have a serial pk and one cached reference field,
\* ref, mirroring a and b of the source: these are its dependencies.
RefDependencies == {"a", "b"}

\* A referring document as stored after its insert: the reference was
\* synchronised with source 1 as inserted.
InitTarget ==
  [exists |-> TRUE, version |-> 1, mutex |-> 0 - HourSeconds,
   ref |-> [id |-> 1, version |-> InitStore[1].version,
            a |-> InitStore[1].a, b |-> InitStore[1].b]]

\* A pending job: the task, its arguments, the retries made so far and the
\* number of jobs between it and the save() that started the chain.
SpawnJob(pk, modified) ==
  [kind |-> "cache_spawn_syncers", src |-> pk, target |-> Null,
   modified |-> modified, attempts |-> 0, depth |-> 0]

ResyncJob(pk, t, depth) ==
  [kind |-> "cache_resync", src |-> pk, target |-> t,
   modified |-> {}, attempts |-> 0, depth |-> depth]

\* The cache_spawn_syncers.delay(...) calls of editor e's save() reach the
\* queue.
Deliver(e) ==
  /\ pc[e] = "done"
  /\ LET queued == {j \in tasks[e] : j.kind = "cache_spawn_syncers"}
         new == {SpawnJob(j.pk, j.modified) : j \in queued}
     IN /\ queued # {}
        /\ new \cap jobs = {}
        /\ jobs' = jobs \cup new
        /\ tasks' = [tasks EXCEPT ![e] = @ \ queued]
  /\ UNCHANGED <<store, revisions, counters, now, ticks, hist>>
  /\ UNCHANGED <<editorVars, schemaVars, metaVars, deleteVars, cref, crefRes, syncs, tstore, jobLog>>

\* Document.get_reverse_references(modified_fields) of the document pk: the
\* referring documents whose reference field depends on a modified field.
GetReverseReferences(ts, pk, modified) ==
  IF RefDependencies \cap modified = {}
    THEN {}
    ELSE {t \in TargetIds : ts[t].exists /\ ts[t].ref.id = pk}

\* The task cache_spawn_syncers: one cache_resync job per referring document.
CacheSpawnSyncers(j) ==
  /\ j \in jobs
  /\ j.kind = "cache_spawn_syncers"
  /\ jobs' = (jobs \ {j}) \cup
              {ResyncJob(j.src, t, j.depth + 1) :
                 t \in GetReverseReferences(tstore, j.src, j.modified)}
  /\ jobLog' = jobLog \cup {[job |-> j, outcome |-> "ok"]}
  /\ UNCHANGED <<store, revisions, counters, now, ticks, tasks, hist>>
  /\ UNCHANGED <<editorVars, schemaVars, metaVars, deleteVars, cref, crefRes, syncs, tstore>>

\* doc_class(pk = doc_id): the constructor sets the given field of a new
\* in-memory document; nothing is read from the collection, the version is
\* None and no cached reference is registered in _reference_fields.
BlankDocument(pk) ==
  [pk |-> pk, version |-> Null, a |-> Null, b |-> Null,
   ref |-> NoRef, registered |-> {}]

\* Document.sync_reference_field(path, document): the references registered
\* under the path and the document's pk are synchronised with it.
SyncReferenceField(d, source) ==
  IF source.pk \in d.registered
    THEN [d EXCEPT !.ref = SyncGiven(d.ref, source).ref]
    ELSE d

\* doc.save(snapshot = False, tasks = {'reference_cache': False}) of a
\* referring document d.  Without a version it is an insert, whose
\* _db_prepare fails: on the null reference when that field is required and
\* prepared first, else on the pk set by hand.  With a version it is an
\* update: the mutex is taken for the version (MutexNotAcquired otherwise)
\* and the commit increments the stored version.
ResyncSave(d, ts, t, refFirst, refRequired) ==
  IF d.version = Null
    THEN [tstore |-> ts,
          outcome |-> IF refFirst /\ refRequired /\ d.ref = NoRef
                        THEN "ValidationError"
                        ELSE SerialPreSave(d.pk, 0, FALSE).err]
    ELSE IF LockMatches(ts[d.pk], d.version, t)
      THEN [tstore |-> [ts EXCEPT ![d.pk].ref = d.ref,
                                  ![d.pk].version = @ + 1,
                                  ![d.pk].mutex = t - HourSeconds],
            outcome |-> "ok"]
      ELSE [tstore |-> ts, outcome |-> "MutexNotAcquired"]

\* cache_resync whose save queues the default tasks: a further
\* cache_spawn_syncers job is dispatched for the source.
CacheResyncDispatching(j) ==
  /\ j \in jobs
  /\ j.kind = "cache_resync"
  /\ jobs' = (jobs \ {j}) \cup
              {[SpawnJob(j.src, RefDependencies) EXCEPT !.depth = j.depth + 1]}
  /\ jobLog' = jobLog \cup {[job |-> j, outcome |-> "ok"]}
  /\ UNCHANGED <<store, revisions, counters, now, ticks, tasks, hist>>
  /\ UNCHANGED <<editorVars, schemaVars, metaVars, deleteVars, cref, crefRes, syncs, tstore>>

\* The task cache_resync: both documents are constructed from their ids,
\* the reference fields are synchronised and the referring document is
\* saved; MutexNotAcquired re-queues the job while retries are left, any
\* other exception, or MutexNotAcquired after the last retry, ends the job
\* as a failure recorded by the job system.  The iteration order of the
\* referring class's fields and whether ref is required are the
\* application's choice.
CacheResync(j) ==
  /\ j \in jobs
  /\ j.kind = "cache_resync"
  /\ \E refFirst \in BOOLEAN, refRequired \in BOOLEAN :
       LET source_doc == BlankDocument(j.src)
           d == SyncReferenceField(BlankDocument(j.target), source_doc)
           r == ResyncSave(d, tstore, now, refFirst, refRequired)
       IN /\ tstore' = r.tstore
          /\ IF r.outcome = "MutexNotAcquired" /\ j.attempts < MaxRetries
               THEN /\ jobs' = (jobs \ {j}) \cup {[j EXCEPT !.attempts = @ + 1]}
                    /\ jobLog' = jobLog
               ELSE /\ jobs' = jobs \ {j}
                    /\ jobLog' = jobLog \cup {[job |-> j, outcome |-> r.outcome]}
  /\ UNCHANGED <<store, revisions, counters, now, ticks, tasks, hist>>
  /\ UNCHANGED <<editorVars, schemaVars, metaVars, deleteVars, cref, crefRes, syncs>>

\* The same save when the referring class declares its primary key as an
\* IntegerField, whose value may be set by hand: _db_prepare fails only on a
\* required reference left null, and the insert goes to the collection,
\* which refuses an _id that is already stored (DuplicateKeyError) and
\* otherwise stores the new record at version 1 with a null reference.
ResyncSaveManualPk(d, ts, t, refRequired) ==
  IF d.version = Null
    THEN IF refRequired /\ d.ref = NoRef
           THEN [tstore |-> ts, outcome |-> "ValidationError"]
         ELSE IF ts[d.pk].exists
           THEN [tstore |-> ts, outcome |-> "DuplicateKeyError"]
         ELSE [tstore |-> [ts EXCEPT ![d.pk] =
                             [exists |-> TRUE, version |-> 1,
                              mutex |-> t - HourSeconds, ref |-> d.ref]],
               outcome |-> "ok"]
    ELSE IF LockMatches(ts[d.pk], d.version, t)
      THEN [tstore |-> [ts EXCEPT ![d.pk].ref = d.ref,
                                  ![d.pk].version = @ + 1,
                                  ![d.pk].mutex = t - HourSeconds],
            outcome |-> "ok"]
      ELSE [tstore |-> ts, outcome |-> "MutexNotAcquired"]

\* The task cache_resync for a referring class with such a primary key.
CacheResyncManualPk(j) ==
  /\ j \in jobs
  /\ j.kind = "cache_resync"
  /\ \E refRequired \in BOOLEAN :
       LET source_doc == BlankDocument(j.src)
           d == SyncReferenceField(BlankDocument(j.target), source_doc)
           r == ResyncSaveManualPk(d, tstore, now, refRequired)
       IN /\ tstore' = r.tstore
          /\ IF r.outcome = "MutexNotAcquired" /\ j.attempts < MaxRetries
               THEN /\ jobs' = (jobs \ {j}) \cup {[j EXCEPT !.attempts = @ + 1]}
                    /\ jobLog' = jobLog
               ELSE /\ jobs' = jobs \ {j}
                    /\ jobLog' = jobLog \cup {[job |-> j, outcome |-> r.outcome]}
  /\ UNCHANGED <<store, revisions, counters, now, ticks, tasks, hist>>
  /\ UNCHANGED <<editorVars, schemaVars, metaVars, deleteVars, cref, crefRes, syncs>>

\* delete() of the referring document t by a process that has just loaded
\* it: nothing refers to it, its mutex is free, the record is removed.
DeleteTarget(t) ==
  /\ tstore[t].exists
  /\ tstore[t].mutex < now
  /\ tstore' = [tstore EXCEPT ![t] = NoTarget]
  /\ UNCHANGED <<store, revisions, counters, now, ticks, tasks, hist>>
  /\ UNCHANGED <<editorVars, schemaVars, metaVars, deleteVars, cref, crefRes, syncs,
                 jobs, jobLog>>

\* ------------------------------------------------- jobs specification
\* Source 1 is stored and any of the referring documents refer to it.
InitJobs ==
  /\ InitEditors
  /\ InitNoMeta
  /\ InitClock
  /\ InitNoDelete
  /\ cref = NoRef
  /\ crefRes = [outcome |-> "none", by |-> "none"]
  /\ syncs = 0
  /\ tstore \in [TargetIds -> {NoTarget, InitTarget}]
  /\ jobs = {}
  /\ jobLog = {}
  /\ store = InitStore
  /\ revisions = {}
  /\ counters = 1
  /\ hist = HistOf(DefaultSchema, 1, InitStore[1])
  /\ fields = DefaultSchema
  /\ fieldOrder = <<"pk", "a", "b">>

\* The work of the celery worker on the queue.
Worker == \E j \in jobs : CacheSpawnSyncers(j) \/ CacheResync(j)

\* The updater saves the source; its jobs are delivered and worked off.
NextJobs ==
  \/ Load(Updater, 1)
  \/ \E v \in FieldInputs("a") : SetField(Updater, "a", v)
  \/ (doc[Updater].version < MaxSyncVersion /\ SavePrepare(Updater, FALSE))
  \/ Lock(Updater)
  \/ Commit(Updater)
  \/ Deliver(Updater)
  \/ ((\A j \in tasks[Updater] : j.kind # "cache_spawn_syncers") /\ Finish(Updater))
  \/ \E j \in jobs : CacheSpawnSyncers(j)
  \/ \E j \in jobs : CacheResync(j)

SpecJobs == InitJobs /\ [][NextJobs]_vars

\* The broker delivers what was queued and the worker keeps taking jobs.
SpecJobsFair ==
  /\ InitJobs
  /\ [][NextJobs]_vars
  /\ WF_vars(Deliver(Updater))
  /\ WF_vars(Worker)

\* -------------------------------------------------- units specification
\* The updater saves the source and its jobs are worked off, for a referring
\* class whose primary key is serial or set by hand, while referring
\* documents are deleted.
NextUnits ==
  \/ Load(Updater, 1)
  \/ SetField(Updater, "a", 1)
  \/ (doc[Updater].version < MaxSyncVersion /\ SavePrepare(Updater, FALSE))
  \/ Lock(Updater)
  \/ Commit(Updater)
  \/ Deliver(Updater)
  \/ ((\A j \in tasks[Updater] : j.kind # "cache_spawn_syncers") /\ Finish(Updater))
  \/ \E j \in jobs : CacheSpawnSyncers(j)
  \/ \E j \in jobs : CacheResync(j)
  \/ \E j \in jobs : CacheResyncManualPk(j)
  \/ \E t \in TargetIds : DeleteTarget(t)

SpecUnits == InitJobs /\ [][NextUnits]_vars

\* ------------------------------------------------- resync specification
\* The updater saves the source and its jobs are worked off, while a holder
\* of a cached reference synchronises it with the updater's document or by
\* fetching, any number of times between two saves.
NextResync ==
  \/ Load(Updater, 1)
  \/ SetField(Updater, "a", 1)
  \/ (doc[Updater].version < MaxSyncVersion /\ SavePrepare(Updater, FALSE))
  \/ Lock(Updater)
  \/ Commit(Updater)
  \/ Deliver(Updater)
  \/ ((\A j \in tasks[Updater] : j.kind # "cache_spawn_syncers") /\ Finish(Updater))
  \/ \E j \in jobs : CacheSpawnSyncers(j)
  \/ \E j \in jobs : CacheResync(j)
  \/ SyncWith(Updater)
  \/ SyncFetch

SpecResync == InitJobs /\ [][NextResync]_vars

\* ------------------------------------------- delete check specification
\* Two stored documents of the self-referencing class with any reference
\* values, cycles and self-references included; the delete check runs once
\* on either of them.
CheckDocs == {1, 2}

InitCheck ==
  /\ InitEditors
  /\ InitNoMeta
  /\ InitClock
  /\ InitNoCache
  /\ store = [d \in DocIds |-> IF d \in CheckDocs THEN InitStore[1] ELSE NoDoc]
  /\ revisions = {}
  /\ counters = 2
  /\ hist = {}
  /\ fields = DefaultSchema
  /\ fieldOrder = <<"pk", "a", "b">>
  /\ \E g \in [CheckDocs -> [RefFields -> CheckDocs \cup {Null}]] :
       refs = [d \in DocIds |-> IF d \in CheckDocs THEN g[d] ELSE NoRefs]
  /\ delPc = "idle"
  /\ delStack = <<>>
  /\ delTarget = Null
  /\ delTasks = {}
  /\ delRes = "none"

NextCheck ==
  \/ \E d \in CheckDocs : CheckStart(d)
  \/ CheckStep

SpecCheck == InitCheck /\ [][NextCheck]_vars

\* The process running the check keeps running.
SpecCheckFair == SpecCheck /\ WF_vars(CheckStep)

\* ------------------------------------------------ reindex specification
\* Any set of stored documents of a searchable class; the command is run
\* once in the foreground with any --start-pk, and the user may interrupt.
InitReindex ==
  /\ InitEditors
  /\ InitNoMeta
  /\ InitClock
  /\ InitNoDelete
  /\ InitNoCache
  /\ \E S \in SUBSET DocIds :
       store = [d \in DocIds |-> IF d \in S THEN InitStore[1] ELSE NoDoc]
  /\ revisions = {}
  /\ counters = MaxId
  /\ hist = {}
  /\ fields = DefaultSchema
  /\ fieldOrder = <<"pk", "a", "b">>

ReindexLoop ==
  \/ ReindexBatch
  \/ \E ok \in BOOLEAN : ReindexDocument(ok)
  \/ ReindexBatchEnd

NextReindex ==
  \/ \E start \in 0..MaxId : ReindexStart(start)
  \/ ReindexLoop
  \/ ReindexInterrupt

SpecReindex == InitReindex /\ [][NextReindex]_vars

\* The command's process keeps running; nobody has to interrupt it.
SpecReindexFair == SpecReindex /\ WF_vars(ReindexLoop)

\* ----------------------------------------------- delete specification
\* Reference values that keep the reference graph acyclic: a document
\* refers to documents inserted before it.
RefTargets(d) == {Null} \cup {t \in DocIds : t < d}

\* The reference values of documents 1..n, document after document.
RECURSIVE RefGraphs(_)
RefGraphs(n) ==
  IF n = 0 THEN {<<>>}
  ELSE {Append(g, r) : g \in RefGraphs(n - 1), r \in [RefFields -> RefTargets(n)]}

\* MaxId stored documents with any acyclic references among them; one
\* process deletes one of them, nobody else touches the store.
InitDelete ==
  /\ InitEditors
  /\ InitNoMeta
  /\ InitClock
  /\ InitNoCache
  /\ store = [d \in DocIds |->
                [exists |-> TRUE, a |-> 0, b |-> 1, version |-> 1,
                 mutex |-> 0 - HourSeconds,
                 last_update |-> 0, last_author |-> "none"]]
  /\ revisions = {}
  /\ counters = MaxId
  /\ hist = UNION {HistOf(DefaultSchema, d, [exists |-> TRUE, a |-> 0, b |-> 1, version |-> 1,
                              mutex |-> 0 - HourSeconds]) : d \in DocIds}
  /\ fields = DefaultSchema
  /\ fieldOrder = <<"pk", "a", "b">>
  /\ refs \in RefGraphs(MaxId)
  /\ delPc = "idle"
  /\ delStack = <<>>
  /\ delTarget = Null
  /\ delTasks = {}
  /\ delRes = "none"

NextDelete ==
  \/ \E d \in DocIds : DeleteStart(d)
  \/ DeleteLock
  \/ DeleteRemove
  \/ DeleteRevisions
  \/ DeleteCascade

SpecDelete == InitDelete /\ [][NextDelete]_vars

\* ------------------------------------ reverse reference specification
\* MaxId stored documents with any acyclic references among them; the task
\* cache_spawn_syncers runs once, for any of them with any modified_fields.
NextRev ==
  \E d \in DocIds, m \in ModifiedInputs : SpawnSyncersFor(d, m)

SpecRev == InitDelete /\ [][NextRev]_vars

\* ------------------------------------------ registration specification
\* A document or embedded document class is being built: its fields are
\* installed one after another.
InitMeta ==
  /\ InitEditors
  /\ InitClock
  /\ InitNoDelete
  /\ InitNoCache
  /\ store = [d \in DocIds |-> NoDoc]
  /\ revisions = {}
  /\ counters = 0
  /\ hist = {}
  /\ fields = DefaultSchema
  /\ fieldOrder = <<"pk", "a", "b">>
  /\ revOut = NoRevOut
  /\ meta \in {NewMeta(e) : e \in BOOLEAN}
  /\ regRes = NoRegRes
  /\ InitNoDecl

NextMeta ==
  \E name \in NameInputs, db_name \in DbNameInputs, primary_key \in BOOLEAN :
    RegisterField(name, db_name, primary_key)

SpecMeta == InitMeta /\ [][NextMeta]_vars

\* At import no document class exists and the store is empty.
InitClasses ==
  /\ InitEditors
  /\ InitNoMeta
  /\ InitClock
  /\ InitNoDelete
  /\ InitNoCache
  /\ store = [d \in DocIds |-> NoDoc]
  /\ revisions = {}
  /\ counters = 0
  /\ hist = {}
  /\ fields = DefaultSchema
  /\ fieldOrder = <<"pk", "a", "b">>

NextClasses ==
  \E c \in ClassNames, t1 \in TargetArgs(classes), t2 \in TargetArgs(classes) :
    DefineDocument(c, <<t1, t2>>)

SpecClasses == InitClasses /\ [][NextClasses]_vars

StoredReferences == [RefHolders -> SourceIds \cup {Null}]

NextRegistry ==
  \/ \E order \in HolderOrders : DefineReferring(order)
  \/ \E data \in StoredReferences : LoadReferring(data)
  \/ \E source \in SourceIds : SyncReferenceFields(source)

SpecRegistry == InitClasses /\ [][NextRegistry]_vars

NextPaths == \E path \in PathInputs : ResolvePath(path)

SpecPaths == InitClasses /\ [][NextPaths]_vars

NextQuery == \E key \in QueryKeys, value \in QueryValues : ParseSpec(key, value)

SpecQuery == InitClasses /\ [][NextQuery]_vars

NextMirror == \E fs \in MirrorLists : CreateCachedReferenceDocument(fs)

SpecMirror == InitClasses /\ [][NextMirror]_vars

\* ================================================================ claims
\* A step of editor e that is the commit of an update.
CommitStep(e) == pc[e] = "commit" /\ pc'[e] = "done"

\* A step of editor e that is the find_and_modify of _lock.
LockStep(e) == pc[e] = "lock" /\ pc'[e] # "lock"

\* A step of editor e that is the preparation (_db_prepare) of a save.
PrepareStep(e) == pc[e] \in {"new", "loaded"} /\ pc'[e] \in {"lock", "insert", "failed"}

\* C1: two editors that loaded the same document at the same version and
\* both ran save(): exactly one succeeded, the other got MutexNotAcquired,
\* and the stored version is the loaded version plus one.
C1_OneEditorWins ==
  \A e1, e2 \in Editors :
    ( /\ e1 # e2
      /\ pc[e1] \in {"done", "failed"} /\ pc[e2] \in {"done", "failed"}
      /\ res[e1] \in {"ok", "MutexNotAcquired"}
      /\ res[e2] \in {"ok", "MutexNotAcquired"}
      /\ doc[e1].pk = doc[e2].pk
      /\ aux[e1].loaded = aux[e2].loaded )
    => /\ ~(res[e1] = "ok" /\ res[e2] = "ok")
       /\ store[doc[e1].pk].version = aux[e1].loaded + 1

\* C2: the commit writes only if the stored document still has the version
\* the editor locked and the lease that editor took; otherwise the store is
\* left as it is.
C2_CommitConditional ==
  [][\A e \in Editors :
       CommitStep(e) =>
         LET s == store[doc[e].pk]
         IN ~(s.exists /\ s.version = doc[e].version /\ s.mutex = aux[e].lease)
              => store' = store]_vars

\* C3: a successful update leaves the stored version at the in-memory version
\* before the save plus one, the in-memory version equal to the stored one,
\* and a reload returns the in-memory field values.
C3_VersionAndRoundTrip ==
  [][\A e \in Editors :
       CommitStep(e) =>
         LET s == store'[doc[e].pk]
         IN /\ s.exists
            /\ s.version = doc[e].version + 1
            /\ doc'[e].version = s.version
            /\ \A f \in UserFields : FromStore(f, s[f]) = doc[e][f]]_vars

\* C4: _lock succeeds exactly when the stored document exists, its mutex is
\* strictly before now and its version is the in-memory version; on success
\* the mutex becomes now + 30 s in that step and the pre-step document is
\* returned; otherwise MutexNotAcquired is raised and nothing is written.
C4_LockAcquisition ==
  [][\A e \in Editors :
       LockStep(e) =>
         LET pk == doc[e].pk
             s == store[pk]
             matches == s.exists /\ s.mutex < now /\ s.version = doc[e].version
         IN /\ matches <=> pc'[e] \in {"snapshot", "commit"}
            /\ matches => /\ store' = [store EXCEPT ![pk].mutex = now + LeaseSeconds]
                          /\ old'[e] = s
            /\ ~matches => /\ pc'[e] = "failed"
                           /\ res'[e] = "MutexNotAcquired"
                           /\ store' = store
                           /\ revisions' = revisions]_vars

\* One editor holds the lease it has just taken while the other editor's
\* acquisition has failed.
C4_Witness ==
  \E e1, e2 \in Editors :
    /\ pc[e1] \in {"snapshot", "commit"}
    /\ store[doc[e1].pk].mutex = aux[e1].lease
    /\ old[e1].exists /\ old[e1].mutex < store[doc[e1].pk].mutex
    /\ pc[e2] = "failed" /\ res[e2] = "MutexNotAcquired"

\* C5: an update save() that fails to acquire the lease raises
\* MutexNotAcquired and writes nothing: neither its preparation nor the
\* failed acquisition changes the documents, the revisions or the counters,
\* the in-memory version stays, and no job is queued.
C5_FailedLockWritesNothing ==
  [][\A e \in Editors :
       /\ (LockStep(e) /\ pc'[e] = "failed") =>
            /\ res'[e] = "MutexNotAcquired"
            /\ UNCHANGED <<store, revisions, counters>>
            /\ doc'[e].version = doc[e].version
            /\ tasks'[e] = {}
       /\ (PrepareStep(e) /\ doc[e].version # Null) =>
            /\ UNCHANGED <<store, revisions, counters>>
            /\ doc'[e].version = doc[e].version
            /\ tasks'[e] = {}]_vars

\* An update whose lease acquisition failed because the other editor has
\* committed: the stored version has moved past the loser's version.
C5_Witness ==
  \E e \in Editors :
    /\ pc[e] = "failed" /\ res[e] = "MutexNotAcquired"
    /\ doc[e].version # Null
    /\ store[doc[e].pk].version = doc[e].version + 1
    /\ tasks[e] = {}

ValueAfterPreSave(e, f) ==
  IF doc[e][f] = Null THEN fields[f].default ELSE doc[e][f]

C7_ValidationFailureWritesNothing ==
  [][\A e \in Editors :
       (PrepareStep(e) /\ pc'[e] = "failed" /\ res'[e] = "ValidationError")
         => UNCHANGED <<store, revisions, counters>>]_vars

\* No save is between its _lock and its commit.
Quiescent == \A e \in Editors : pc[e] \notin {"snapshot", "commit"}

RevisionsOf(d) == {r \in revisions : r.doc = d}

\* C8: with every update snapshotted and no concurrent editor, a document at
\* version N + 1 has exactly N revisions, keyed by versions 1..N, and the
\* revision for version v holds the values the revisable fields had in the
\* store at version v.
C8_RevisionPerUpdate ==
  Quiescent =>
    \A d \in DocIds :
      store[d].exists =>
        /\ {r.version : r \in RevisionsOf(d)} = 1..(store[d].version - 1)
        /\ Cardinality(RevisionsOf(d)) = store[d].version - 1
        /\ \A r \in RevisionsOf(d) :
             \A h \in hist :
               (h.doc = d /\ h.version = r.version) =>
                 \A f \in UserFields :
                   fields[f].revisable => r.document[f] = h[f]

\* The cascade closure of d: d and every document that refers to a member
\* of the closure through a CASCADE reference.
RECURSIVE CascadeClosure(_, _)
CascadeClosure(S, n) ==
  IF n = 0 THEN S
  ELSE CascadeClosure(
         S \cup {x \in DocIds : \E k \in {"c1", "c2"} : refs[x][k] \in S}, n - 1)

ClosureOf(d) == CascadeClosure({d}, MaxId)

\* Some document refers to a member of d's closure through the RESTRICT
\* reference.
RestrictedClosure(d) == \E x \in DocIds : refs[x]["r"] \in ClosureOf(d)

C10_CascadeDeletesClosure ==
  (delPc \in {"done", "failed"} /\ ~RestrictedClosure(delTarget))
    => /\ delRes = "ok"
       /\ \A x \in ClosureOf(delTarget) : ~store[x].exists

\* A step of editor e that is the insert of a new document.
InsertStep(e) == pc[e] = "insert" /\ pc'[e] = "done"

\* The kinds of the jobs editor e's save has queued.
QueuedKinds(e) == {j.kind : j \in tasks[e]}

\* C16: the insert path stores version 1 and a lease timestamp in the past,
\* so that a lease acquisition at version 1 matches at once; it sets the
\* in-memory version to 1 and the provenance to store-backed; it never
\* queues the cache-sync job, whatever the tasks argument asked for, and
\* queues the search-index update exactly when the schema is searchable and
\* the tasks argument leaves search tasks enabled.
C16_InsertPath ==
  [][\A e \in Editors :
       InsertStep(e) =>
         LET s == store'[doc[e].pk]
         IN /\ s.exists /\ s.version = 1
            /\ s.mutex < now
            /\ doc'[e].version = 1
            /\ aux'[e].source = SourceDb
            /\ "cache_spawn_syncers" \notin {j.kind : j \in tasks'[e]}
            /\ ("search_index_update" \in {j.kind : j \in tasks'[e]})
                 <=> (MetaSearchable /\ aux[e].tasks.search_indices)]_vars

\* An insert finished by a save() whose tasks argument asked for the
\* cache-sync job: only the search-index update is queued.
C16_Witness ==
  \E e \in Editors :
    /\ pc[e] = "done" /\ aux[e].loaded = Null
    /\ doc[e].version = 1 /\ store[doc[e].pk].version = 1
    /\ aux[e].tasks.reference_cache
    /\ QueuedKinds(e) = {"search_index_update"}

\* C17: after a successful save no user field of the stored document holds
\* null (a stored record has every persisted field: Null in it is the value
\* null written under the field's key).
C17_NoStoredNull ==
  \A d \in DocIds :
    store[d].exists => \A f \in UserFields : store[d][f] # Null

\* The in-memory document of editor e has a version and holds exactly what
\* the store holds for it: nothing was assigned since it was loaded.
Unmodified(e) ==
  /\ doc[e].version # Null
  /\ store[doc[e].pk].exists
  /\ store[doc[e].pk].version = doc[e].version
  /\ \A f \in UserFields : doc[e][f] = FromStore(f, store[doc[e].pk][f])

\* C18: save() on an unmodified document with an identifier is a no-op: no
\* step of it changes the documents or the revisions (no lease, no
\* revision, no version increment) or the in-memory version.
C18_UnmodifiedSaveIsNoOp ==
  [][\A e \in Editors :
       (pc[e] \in {"loaded", "lock", "snapshot", "commit"} /\ Unmodified(e))
         => /\ UNCHANGED <<store, revisions>>
            /\ doc'[e].version = doc[e].version]_vars

\* A step in which editor e dies holding the lease.
CrashStep(e) == pc[e] \in {"snapshot", "commit"} /\ pc'[e] = "idle"

\* C14: a lease left behind by a crashed editor does not wedge the document:
\* the crash leaves the stored document as it is, and every acquisition
\* attempt made when the lease timestamp (acquisition time + 30 s) is in the
\* past, with the in-memory version equal to the stored version, succeeds.
C14_StaleLeaseExpires ==
  [][\A e \in Editors :
       /\ CrashStep(e) => store' = store
       /\ (/\ LockStep(e)
           /\ store[doc[e].pk].exists
           /\ store[doc[e].pk].version = doc[e].version
           /\ store[doc[e].pk].mutex < now)
            => /\ pc'[e] \in {"snapshot", "commit"}
               /\ store'[doc[e].pk].version = store[doc[e].pk].version
               /\ store'[doc[e].pk].mutex = now + LeaseSeconds]_vars

\* An editor holds the lease it took over an abandoned one: the document it
\* got back from _lock carried a lease, not a released mutex, and nobody
\* else is saving.
C14_Witness ==
  \E e \in Editors :
    /\ pc[e] \in {"snapshot", "commit"}
    /\ old[e].exists /\ old[e].mutex >= 0 /\ old[e].mutex < now
    /\ old[e].version = doc[e].version
    /\ \A o \in Editors \ {e} : pc[o] = "idle"

\* The acquisition step of the running delete().
DeleteLockStep == delPc = "lock" /\ delPc' # "lock"

\* C15: delete() takes the lease before it removes anything: issued from a
\* copy whose version is not the stored one, or while an unexpired lease is
\* in the store, it fails with MutexNotAcquired and removes neither the
\* document nor its revisions; no step of a delete adds a revision record.
C15_DeleteTakesLease ==
  [][/\ DeleteLockStep =>
          LET top == Head(delStack)
              s == store[top.pk]
          IN /\ (s.exists /\ (s.version # top.version \/ s.mutex >= now))
                  => /\ delPc' = "failed"
                     /\ delRes' = "MutexNotAcquired"
                     /\ UNCHANGED <<store, revisions>>
             /\ delPc' = "remove"
                  => /\ s.exists /\ s.version = top.version /\ s.mutex < now
                     /\ store' = [store EXCEPT ![top.pk].mutex = now + LeaseSeconds]
     /\ (delPc # "idle" /\ delPc' # delPc) => revisions' \subseteq revisions
     /\ \A d \in DocIds :
          (store[d].exists /\ ~store'[d].exists) => delPc = "remove"]_vars

\* A delete refused while the updater holds an unexpired lease on the
\* document, which is still stored.
C15_Witness ==
  /\ delRes = "MutexNotAcquired"
  /\ store[delTarget].exists
  /\ pc[Updater] \in {"snapshot", "commit"}
  /\ doc[Updater].pk = delTarget
  /\ store[delTarget].mutex = aux[Updater].lease
  /\ store[delTarget].mutex >= now

\* A step in which sync(document) is called with the document of editor e.
SyncWithStep(e) == syncs' = syncs + 1 /\ crefRes'.by = e

\* C11: over any sequence of sync calls, with a supplied document or with
\* the source fetched by id, the cached version never decreases; a sync
\* given a document whose version is lower than the cached version changes
\* neither a cached field value nor the cached id nor the cached version.
C11_CachedVersionMonotone ==
  [][/\ ~PyLess(cref'.version, cref.version)
     /\ \A e \in Editors :
          (/\ SyncWithStep(e)
           /\ cref.version # Null
           /\ PyLess(doc[e].version, cref.version))
            => cref' = cref]_vars

\* The cache is at the stored version of its source and the last sync, given
\* the reader's older copy of that source, was refused as out of date.
C11_Witness ==
  /\ crefRes = [outcome |-> "noop", by |-> Reader]
  /\ cref.id = doc[Reader].pk
  /\ doc[Reader].version < cref.version
  /\ cref.version = store[cref.id].version

\* The updater has committed an update of the source the cache mirrors, the
\* update changed a and not b, and the cache holds the values the source
\* had at an earlier version.
UpdatedAOnly(e) ==
  /\ pc[e] = "done" /\ res[e] = "ok"
  /\ cref.id = doc[e].pk
  /\ cref.version # Null /\ cref.version < doc[e].version
  /\ [doc |-> cref.id, version |-> cref.version, a |-> cref.a, b |-> cref.b] \in hist
  /\ \E j \in tasks[e] : /\ j.kind = "cache_spawn_syncers"
                          /\ "a" \in j.modified
                          /\ "b" \notin j.modified

\* C12 as stated: after the source's a was updated (modified fields holding
\* a and not b) and the cache is synchronised with the updated source, the
\* cached a and version are the source's, the cached id is unchanged, and
\* the cached b is unchanged whatever it held before.
C12_OnlyModifiedFieldChanges ==
  [][\A e \in Editors :
       (UpdatedAOnly(e) /\ SyncWithStep(e))
         => /\ cref'.a = doc[e].a
            /\ cref'.version = doc[e].version
            /\ cref'.id = cref.id
            /\ cref'.b = cref.b]_vars

\* C12 amended: such a sync sets every mirrored field of the cache, a and b
\* alike, to the source's current value, the cached version to the source's
\* and leaves the cached id unchanged; the cached b is unchanged exactly
\* when it already held the source's current b.
C12_SyncCopiesEveryMirroredField ==
  [][\A e \in Editors :
       (UpdatedAOnly(e) /\ SyncWithStep(e))
         => /\ cref'.a = doc[e].a
            /\ cref'.b = doc[e].b
            /\ cref'.version = doc[e].version
            /\ cref'.id = cref.id
            /\ (cref'.b = cref.b) <=> (cref.b = doc[e].b)]_vars

\* The cache was synchronised with the updater's document after an update
\* that changed a and not b, and holds a b that differs from the one the
\* source had when the reader loaded it.
C12_Witness ==
  /\ crefRes = [outcome |-> "synced", by |-> Updater]
  /\ pc[Updater] = "done" /\ res[Updater] = "ok"
  /\ cref = CopyFields(cref, doc[Updater])
  /\ \E j \in tasks[Updater] : /\ j.kind = "cache_spawn_syncers"
                                /\ "a" \in j.modified
                                /\ "b" \notin j.modified
  /\ doc[Reader].pk = cref.id
  /\ doc[Reader].b # cref.b

\* A step in which the worker runs the resync unit j to its end or to its
\* re-queueing.
ResyncStep(j) == j \in jobs /\ j.kind = "cache_resync" /\ j \notin jobs'

\* What a cached reference holds when it is current with the stored source.
SourceRef(pk) ==
  [id |-> pk, version |-> store[pk].version,
   a |-> FromStore("a", store[pk].a), b |-> FromStore("b", store[pk].b)]

\* C13: the resync of a stored referring document from its stored source
\* leaves the document's cached reference at the source's current field
\* values and version, and leaves the document's own version unchanged.
C13_ResyncUpdatesCache ==
  [][\A j \in jobs :
       (ResyncStep(j) /\ store[j.src].exists /\ tstore[j.target].exists)
         => /\ tstore'[j.target].ref = SourceRef(j.src)
            /\ tstore'[j.target].version = tstore[j.target].version]_vars

\* C19: a resync unit creates no revision record and queues no further
\* cache job (at most itself again, as a retry); no pending job is more
\* than one job away from the save() that started it; and whenever cache
\* jobs are pending, the queue eventually becomes empty.
C19_ResyncEndsPropagation ==
  /\ [][/\ \A j \in jobs :
            ResyncStep(j)
              => /\ revisions' = revisions
                 /\ (jobs' \ jobs) \subseteq {[j EXCEPT !.attempts = @ + 1]}
                 /\ tasks' = tasks
        /\ \A k \in jobs' : k.depth <= 1]_vars
  /\ (jobs # {}) ~> (jobs = {})

\* A resync unit started by an update of the source has ended, the queue is
\* empty and no revision record exists.
C19_Witness ==
  /\ jobs = {}
  /\ revisions = {}
  /\ \E l \in jobLog : l.job.kind = "cache_resync" /\ l.job.depth = 1
  /\ store[1].version > 1

\* C20: a resync unit either applies the resync, or, its save having failed
\* with MutexNotAcquired, is queued again while fewer than 3 retries were
\* made and is recorded as failed after the third; an attempt made while
\* the referring document's lease is free applies the resync.
C20_MutexFailureIsRetried ==
  [][\A j \in jobs :
       (ResyncStep(j) /\ store[j.src].exists /\ tstore[j.target].exists)
         => /\ \/ tstore'[j.target].ref = SourceRef(j.src)
               \/ /\ j.attempts < MaxRetries
                  /\ [j EXCEPT !.attempts = @ + 1] \in jobs'
               \/ /\ j.attempts = MaxRetries
                  /\ [job |-> j, outcome |-> "MutexNotAcquired"] \in jobLog'
            /\ tstore[j.target].mutex < now
                 => tstore'[j.target].ref = SourceRef(j.src)]_vars

\* The reverse-reference entries that refer x to pk and are not skipped
\* for the modified fields m.
EntriesFor(x, pk, m) ==
  {i \in 1..Len(ReverseReferences) :
     /\ m.none \/ RefDepends(ReverseReferences[i]) \cap m.set # {}
     /\ store[x].exists
     /\ refs[x][ReverseReferences[i]] = pk}

PrimaryKeys(mt) == {g \in mt.fields : g.primary_key}

\* C22: add_field fails with the name-conflict error when the field's name
\* or db_name is taken; for a primary key it fails when the schema has one
\* already, is embedded, or the field's db_name is not "_id"; and whatever
\* was registered, the schema holds at most one primary key field, stored as
\* "_id", which is the one _meta names as primary key.
C22_AddFieldConflicts ==
  /\ regRes.called =>
       LET f == regRes.field
           b == regRes.before
       IN /\ ((\E g \in b.fields : g.name = f.name)
               \/ (\E g \in b.db_fields : g.db_name = f.db_name))
                => regRes.err = "KeyError"
          /\ (f.primary_key /\ (PrimaryKeys(b) # {} \/ b.embedded \/ f.db_name # "_id"))
                => regRes.err # "none"
          /\ regRes.err = "KeyError" => meta = b
  /\ Cardinality(PrimaryKeys(meta)) <= 1
  /\ \A g \in PrimaryKeys(meta) : g.db_name = "_id"
  /\ meta.primary_key_field # "none"
       => /\ ~meta.embedded
          /\ \E g \in PrimaryKeys(meta) : g.name = meta.primary_key_field

\* A second primary key was refused on a schema that has one and a further
\* field.
C22_Witness ==
  /\ regRes.called
  /\ regRes.field.primary_key
  /\ regRes.before.primary_key_field # "none"
  /\ regRes.before.primary_key_field # regRes.field.name
  /\ regRes.err # "none"
  /\ Cardinality(meta.fields) >= 2


\* The class a declared field refers to.
TargetOf(f) ==
  IF classes.fld[f].target.name = "self" THEN f.cls ELSE classes.fld[f].target.name

\* The entries of the target's reverse-reference list made for field f.
EntriesOf(f) ==
  {n \in DOMAIN classes.reverse_references[TargetOf(f)] :
     classes.reverse_references[TargetOf(f)][n].field = f}

\* C23: whichever of the referencing and the target class is defined first,
\* once both are defined the target's reverse-reference list has exactly one
\* entry (referencing class, field path, field) for the reference, its
\* callbacks have each run exactly once, and nothing is pending under the
\* name of a defined class.
C23_ForwardReferenceRegisteredOnce ==
  /\ \A c \in classes.registered : classes.pending[c] = <<>>
  /\ \A f \in FieldIds :
       (classes.fld[f].declared /\ f.cls \in classes.registered
          /\ TargetOf(f) \in classes.registered)
       => /\ Cardinality(EntriesOf(f)) = 1
          /\ \A n \in EntriesOf(f) :
               classes.reverse_references[TargetOf(f)][n]
                 = [cls |-> f.cls, path |-> ReferencePath(f.name), field |-> f]
          /\ \A c \in ClassNames \ {TargetOf(f)} :
               \A n \in DOMAIN classes.reverse_references[c] :
                 classes.reverse_references[c][n].field # f
          /\ classes.fld[f].calls = 1
          /\ classes.fld[f].setups = 1
          /\ ~classes.fld[f].pending_resolve
          /\ classes.fld[f].document = TargetOf(f)

\* Two references by name to the same class, one declared before the class
\* was defined (its registration was deferred) and one after, both entered.
C23_Witness ==
  \E f, g \in FieldIds :
    /\ classes.fld[f].declared /\ classes.fld[g].declared
    /\ classes.fld[f].target = [byName |-> TRUE, name |-> "A"]
    /\ classes.fld[g].target = [byName |-> TRUE, name |-> "A"]
    /\ f.cls # "A" /\ g.cls # "A"
    /\ classes.fld[f].resolved_callback
    /\ ~classes.fld[g].resolved_callback
    /\ Cardinality(EntriesOf(f)) = 1
    /\ Cardinality(EntriesOf(g)) = 1


\* C24: refresh() of a document whose record exists leaves the in-memory
\* values and version equal to the stored ones, whatever was assigned in
\* memory before; when no record exists it fails with DoesNotExist and the
\* in-memory values and version stay as they were.
C24_RefreshReloads ==
  [][\A e \in Editors :
       Refresh(e) =>
         IF store[doc[e].pk].exists
           THEN /\ doc'[e] = [pk |-> doc[e].pk,
                               version |-> store[doc[e].pk].version,
                               a |-> store[doc[e].pk].a,
                               b |-> store[doc[e].pk].b]
                /\ res'[e] = "refreshed"
           ELSE /\ res'[e] = "DoesNotExist"
                /\ doc'[e] = doc[e]]_vars

\* A refreshed document that had been edited in memory and whose record had
\* been updated by the other editor since it was loaded.
C24_Witness ==
  /\ pc[Refresher] = "loaded"
  /\ store[1].exists /\ store[1].version = 2
  /\ doc[Refresher] = [pk |-> 1, version |-> 2, a |-> store[1].a, b |-> store[1].b]
  /\ store[1].a # 0
  /\ res[Refresher] = "refreshed"


\* The logical field names whose store-level value the update of editor e
\* changes: the written value differs from the one the lease fetched.  The
\* update is keyed by the primary key and never writes it.
ChangedByUpdate(e) ==
  {f \in UserFields : SetMap(doc[e])[f] # old[e][f]}

\* C25: the modified-field set handed to the cache-sync dispatch after an
\* update is exactly the set of fields whose stored value the update
\* changes; the primary key, which an update never changes, is not in it,
\* and an update changing no value dispatches the empty set.
C25_ModifiedFieldsExact ==
  [][\A e \in Editors :
       CommitStep(e) =>
         \A j \in tasks'[e] :
           j.kind = "cache_spawn_syncers" => j.modified = ChangedByUpdate(e)]_vars


\* A step of editor e that writes the revision record of its update.
SnapshotStep(e) == pc[e] = "snapshot" /\ pc'[e] = "commit"

\* C26: the revision record written by an update holds exactly the revisable
\* fields present in the state the lease fetched: every revisable field with
\* a stored value, a stored 0 included, appears with that value, and no
\* non-revisable field appears.
C26_RevisionHoldsRevisableFields ==
  [][\A e \in Editors :
       SnapshotStep(e) =>
         \A r \in revisions' :
           (r.doc = doc[e].pk /\ r.version = doc[e].version) =>
             \A f \in UserFields :
               r.document[f] = IF fields[f].revisable THEN old[e][f] ELSE Null]_vars


\* The step of delete() that removes the revisions of document d.
DeleteRevisionsStep(d) ==
  delPc = "revisions" /\ delPc' = "cascade" /\ Head(delStack).pk = d

\* C27: a revision record, once written, keeps its snapshot, creation time
\* and author through every later save, a second upsert for the same
\* document and version included; it goes away only when delete() removes
\* the revisions of its document.
C27_RevisionsAppendOnly ==
  [][\A r \in revisions :
       \/ r \in revisions'
       \/ /\ DeleteRevisionsStep(r.doc)
          /\ \A q \in revisions' : q.doc # r.doc]_vars

\* The upsert for document 1 at version 2 was issued a second time, by an
\* editor that took the lease after the first one's had run out, when the
\* record was already there.
C27_Witness ==
  \E e \in Editors :
    /\ pc[e] = "commit"
    /\ doc[e].version = 2
    /\ now > 0
    /\ aux[e].author = e
    /\ \E r \in revisions :
         /\ r.doc = doc[e].pk /\ r.version = 2
         /\ r.author # "none" /\ r.author # e
         /\ r.created = 0
    /\ \E o \in Editors \ {e} : pc[o] \in {"snapshot", "commit"} /\ doc[o].version = 2


\* The identifiers in use: those of stored documents and those held by the
\* in-memory documents of the editors.
IdsInUse ==
  {d \in DocIds : store[d].exists}
  \cup {doc[e].pk : e \in {o \in Editors : doc[o].pk # Null}}

\* C28: every insert takes its identifier by one increment-and-fetch of the
\* counter: the identifier is the incremented counter, above every identifier
\* handed out before and so distinct from them, whatever the other editor is
\* doing; a save on the update path, and every other step, leaves the
\* counter alone.
C28_SerialAllocation ==
  [][\A e \in Editors :
       /\ (pc[e] = "new" /\ pc'[e] = "insert")
            => /\ counters' = counters + 1
               /\ doc'[e].pk = counters'
               /\ \A d \in IdsInUse : d < doc'[e].pk
       /\ (pc[e] # "new" /\ pc'[e] # pc[e]) => counters' = counters]_vars

\* Two inserts in flight at once, each with its own identifier.
C28_Witness ==
  /\ pc["e1"] = "insert" /\ pc["e2"] = "insert"
  /\ doc["e1"].pk # doc["e2"].pk
  /\ {doc["e1"].pk, doc["e2"].pk} = {2, 3}


\* The cached copies of the source in the loaded document.
CopiesOf(source) == {h \in registry.declared : registry.data[h] = source}

\* C29: in a loaded document every cached reference, nested or not, is in
\* the top-level registry under the path its reverse-reference entry records
\* and the id of its source; so sync_reference_field over the paths given by
\* get_reverse_references reaches every cached copy of the source and no
\* copy of another source.
C29_RegistryMatchesReversePaths ==
  /\ registry.loaded =>
       \A h \in registry.declared :
         registry.data[h] # Null =>
           /\ \E n \in DOMAIN registry.reverse_references :
                registry.reverse_references[n]
                  = [cls |-> "R", path |-> NestedReferencePath(h),
                     field |-> FieldObject(h)]
           /\ [path |-> NestedReferencePath(h), id |-> registry.data[h],
               copy |-> h] \in registry.reference_fields
  /\ registry.synced.source # Null =>
       registry.synced.copies = CopiesOf(registry.synced.source)


\* The schema in which element i of the path is looked up: the document's
\* for the first, else the nested schema of the field before it; "none" once
\* a field without nested schema has been crossed, "unknown" after a name
\* that is no field of its schema.
RECURSIVE SchemaAt(_, _)
SchemaAt(path, i) ==
  IF i = 1 THEN "Doc"
  ELSE LET prev == SchemaAt(path, i - 1)
       IN IF prev \in {"none", "unknown"} THEN prev
          ELSE IF path[i - 1] \in DOMAIN SchemaOf(prev)
            THEN SchemaOf(prev)[path[i - 1]].sub
            ELSE "unknown"

\* Element i of the path names no field of the schema the walk is in.
UnknownAt(path, i) ==
  /\ SchemaAt(path, i) \in SchemaNames
  /\ path[i] \notin DOMAIN SchemaOf(SchemaAt(path, i))

\* C30: the result has the length of the path; an element met inside a
\* schema is replaced by the db_name of the field it names there and the
\* walk descends into that field's nested schema; the elements after a field
\* without nested schema come out unchanged; a name that is no field of the
\* schema being walked fails with KeyError.
C30_ResolvePath ==
  resolved.called =>
    LET path == resolved.path
    IN IF \E i \in DOMAIN path : UnknownAt(path, i)
         THEN resolved.err = "KeyError"
         ELSE /\ resolved.err = "none"
              /\ Len(resolved.out) = Len(path)
              /\ \A i \in DOMAIN path :
                   resolved.out[i] =
                     IF SchemaAt(path, i) = "none" THEN path[i]
                     ELSE SchemaOf(SchemaAt(path, i))[path[i]].db_name

\* A path that descends into the embedded document, crosses its field x,
\* which has no nested schema, and goes on with a name no schema has.
C30_Witness ==
  /\ resolved.called
  /\ resolved.path = <<"emb", "x", "zz">>
  /\ resolved.out = <<"e", "ex", "zz">>
  /\ resolved.err = "none"


\* C31: every criterion key compiles to one store filter: a final operator
\* segment is removed and wraps the value, the remaining segments resolve to
\* a non-empty store path, a key naming an unknown field fails with the
\* unknown-field error (KeyError), and a key that is just the name of a
\* schema field compiles to an equality filter on that field's store name.
QueryOperatorOf(key) ==
  IF key[Len(key)] \in QueryOperators THEN key[Len(key)] ELSE "none"

QueryPathOf(key) ==
  IF QueryOperatorOf(key) # "none" THEN SubSeq(key, 1, Len(key) - 1) ELSE key

C31_QueryCompiles ==
  parsed.called =>
    LET want == ResolveSubfieldHierarchy("Doc", QueryPathOf(parsed.key), 1, <<>>)
    IN /\ want.err # "none" => parsed.err = "KeyError"
       /\ want.err = "none" =>
            /\ parsed.err = "none"
            /\ parsed.path = want.out
            /\ parsed.path # <<>>
            /\ parsed.op = QueryOperatorOf(parsed.key)
       /\ (Len(parsed.key) = 1 /\ parsed.key[1] \in DOMAIN SchemaOf("Doc")) =>
            /\ parsed.err = "none"
            /\ parsed.op = "none"
            /\ parsed.path = <<SchemaOf("Doc")[parsed.key[1]].db_name>>


\* C32: once delete() of a revisable, searchable document has returned
\* successfully, its primary record is absent, no revision record of it
\* remains and a search-index removal was requested, whatever a concurrent
\* editor that took its lease before the delete does.
C32_DeleteLeavesNothing ==
  delRes = "ok" =>
    /\ ~store[delTarget].exists
    /\ {r \in revisions : r.doc = delTarget} = {}
    /\ (MetaSearchable => delTarget \in delTasks)


\* C33: resynchronisation is idempotent.  Applying sync again with the same
\* source document (or fetching the same stored source again) leaves the
\* cached id, version and values as the first application left them, and a
\* resync unit run again on the same stored state leaves the referring
\* document's cached reference as its first run left it.
C33_ResyncIdempotent ==
  [][/\ \A e \in Editors :
          SyncWithStep(e) => SyncGiven(cref', doc'[e]).ref = cref'
     /\ (syncs' = syncs + 1 /\ crefRes'.by = "fetch")
          => SyncFetched(cref', store').ref = cref'
     /\ \A j \in jobs :
          ResyncStep(j) =>
            \A refFirst \in BOOLEAN, refRequired \in BOOLEAN :
              ResyncSave(SyncReferenceField(BlankDocument(j.target),
                                            BlankDocument(j.src)),
                         tstore', now', refFirst, refRequired)
                .tstore[j.target].ref = tstore'[j.target].ref]_vars

\* The cached reference was synchronised twice with the updated source and
\* holds its values, and a resync unit for that source has run.
C33_Witness ==
  /\ syncs = 2
  /\ crefRes.outcome = "synced"
  /\ cref = SourceRef(1)
  /\ cref.version = 2
  /\ \E l \in jobLog : l.job.kind = "cache_resync" /\ l.job.src = 1


\* C34: a cached reference cannot mirror another cached reference: building
\* a cached reference whose list of mirrored fields names a field that is a
\* cached reference field of the referenced class fails with TypeError.
C34_NoNestedCachedReference ==
  (/\ built.called
   /\ \E i \in DOMAIN built.fields :
        /\ built.fields[i].kind = "name"
        /\ built.fields[i].name \in DOMAIN SchemaOf("Doc")
        /\ FieldClassOf(built.fields[i].name) = "CachedReferenceField")
    => built.err = "TypeError"


\* C35: an update save() reports success only if its delta was applied to a
\* stored document: a commit step taken when the document has been removed
\* from the store neither reports success nor advances the in-memory
\* version.
C35_CommitNeedsStoredDocument ==
  [][\A e \in Editors :
       (CommitStep(e) /\ ~store[doc[e].pk].exists)
         => /\ res'[e] # "ok"
            /\ doc'[e].version = doc[e].version]_vars


\* C36: delete resolution terminates for every finite reference graph, a
\* document referring to itself and a cycle of CASCADE references included:
\* a started _check_delete_restrict ends by returning its list or by raising
\* DeleteRestrictedByReference.
C36_CheckTerminates ==
  (chk.pc = "running") ~> (chk.pc \in {"returned", "restricted"})


\* C37: with every save snapshotted, the version history of a stored
\* document has no gaps in any reachable state: a revision record exists for
\* every version from 1 up to, not including, the stored version.
C37_NoRevisionGaps ==
  \A d \in DocIds :
    store[d].exists =>
      \A v \in 1..(store[d].version - 1) :
        \E r \in revisions : r.doc = d /\ r.version = v


\* C38: a cache resync unit never creates a document.  When the source or
\* the referring document it names is no longer stored the unit returns
\* without writing anything, and the only write a unit can make is an update
\* of the referring document it names, which is already stored.
C38_ResyncNeverCreates ==
  [][\A j \in jobs :
       ResyncStep(j) =>
         /\ \A t \in TargetIds : tstore'[t].exists => tstore[t].exists
         /\ (~store[j.src].exists \/ ~tstore[j.target].exists)
              => /\ tstore' = tstore
                 /\ [job |-> j, outcome |-> "ok"] \in jobLog'
         /\ \A t \in TargetIds \ {j.target} : tstore'[t] = tstore[t]
         /\ store' = store
         /\ revisions' = revisions]_vars


\* C39: the foreground reindex terminates: unless the user interrupts it,
\* a started command takes every stored document with a primary key above
\* start-pk once, in ascending order, and when a batch makes no progress it
\* leaves the loop, restores the refresh interval, optimizes the index and
\* reports completion.
C39_ReindexTerminates ==
  (reindex.pc = "batch") ~>
    \/ reindex.interrupted
    \/ /\ reindex.done
       /\ reindex.finished
       /\ reindex.refresh_interval = "1s"
       /\ reindex.optimized
       /\ \A d \in DocIds :
            (store[d].exists /\ d > reindex.start)
              => \E i \in DOMAIN reindex.visited : reindex.visited[i] = d
       /\ \A i, k \in DOMAIN reindex.visited :
            i < k => reindex.visited[i] < reindex.visited[k]


\* C40: the reference path of a cached reference field is determined per
\* place of use: every decoded instance is registered under the path of the
\* reverse-reference entry made for the field it was decoded through, also
\* when one embedded class is used by two fields.
C40_ReferencePathPerUse ==
  registry.loaded =>
    \A r \in registry.reference_fields :
      /\ r.path = NestedReferencePath(r.copy)
      /\ \E n \in DOMAIN registry.reverse_references :
           /\ registry.reverse_references[n].path = r.path
           /\ registry.reverse_references[n].field = FieldObject(r.copy)

====
